---- MODULE Spec2Model ----
(***************************************************************************)
(* Model of the AI-response normalization pipeline of the brand            *)
(* intelligence dashboard: AIService (analyzeInfluencerContent,            *)
(* makeOpenAIRequest, parseAIResponse, generateMockResponse and the        *)
(* validate* helpers), MockDataService (generateMockPosts),                *)
(* AnalyzeController (analyzeInfluencer, formatAnalysisResponse,           *)
(* calculateSentimentDistribution, generateInsightTags), the route         *)
(* POST /api/analyze with its validation chains, and the in-memory lists   *)
(* of routes/tracker.js and routes/briefs.js with their handlers.          *)
(*                                                                         *)
(* Specifications: Spec (one call of analyzeInfluencerContent),            *)
(* SpecConcurrent (two calls in flight at once), SpecNormalize             *)
(* (parseAIResponse on a response text), SpecAggregate                     *)
(* (formatAnalysisResponse on a post list and an analysis result),         *)
(* SpecRoute (the server handling POST /api/analyze requests),             *)
(* SpecTracker (add, toggle, delete and sync on the tracked list) and      *)
(* SpecBriefs (generate and export on the briefs list, and their timers).  *)
(***************************************************************************)
EXTENDS Integers, Sequences, FiniteSets, TLC

VARIABLES
  apiKey,      \* this.apiKey is set (process.env.OPENAI_API_KEY)
  maxRetries,  \* this.maxRetries
  pc,          \* position of the request inside analyzeInfluencerContent
  req,         \* [brand, influencer, posts] of the request being handled
  attempt,     \* loop variable of makeOpenAIRequest
  calls,       \* number of axios.post calls issued for this request
  inflight,    \* number of axios.post calls not yet settled
  log,         \* gateway events of this request, in order: calls and sleeps
  lastError,   \* lastError of makeOpenAIRequest
  aiResponse,  \* the raw text handed to parseAIResponse
  parseOut,    \* what parseAIResponse did with aiResponse
  thrown,      \* which callee of analyzeInfluencerContent threw
  draws,       \* the Math.random() draws of generateMockResponse
  outcome,     \* settlement of the promise of analyzeInfluencerContent
  reqBody,     \* req.body of the POST /api/analyze request being handled
  res,         \* the HTTP response sent for it (status and JSON body)
  call,        \* concurrent calls of analyzeInfluencerContent: position,
               \* HTTP calls made and result of each
  frame,       \* the locals attempt and lastError of makeOpenAIRequest,
               \* one frame per invocation
  now,         \* Date.now()
  trackedInfluencers,  \* the array of routes/tracker.js
  trendBriefs, \* the array of routes/briefs.js
  timers,      \* pending setTimeout callbacks of routes/briefs.js, in the
               \* order they were set
  served       \* the tracker or briefs request answered last: what was
               \* asked, the status sent, the arrays before it

\* the state of AIService, of the analysis request being handled and of
\* its response
analysisVars == <<apiKey, maxRetries, pc, req, attempt, calls, inflight, log,
                  lastError, aiResponse, parseOut, thrown, draws, outcome,
                  reqBody, res>>

\* the concurrent calls, the clock and the arrays of the tracker and briefs
\* routes
storeVars == <<call, frame, now, trackedInfluencers, trendBriefs, timers,
               served>>

vars == <<apiKey, maxRetries, pc, req, attempt, calls, inflight, log,
          lastError, aiResponse, parseOut, thrown, draws, outcome,
          reqBody, res, call, frame, now, trackedInfluencers, trendBriefs,
          timers, served>>

(***************************************************************************)
(* Bounds of the model.                                                    *)
(***************************************************************************)
MaxPosts == 2
MaxEnvRetries == 3
MaxArrLen == 10
MaxItems == 2
MaxAnalysisLen == 3
\* requests served by the tracker routes, and by the briefs routes
MaxRequests == 3

(***************************************************************************)
(* JavaScript values.  Every value is a record tagged by t.                *)
(* A number is m * 10^e with m not a multiple of 10 (0 is m = 0, e = 0).   *)
(***************************************************************************)
Undef == [t |-> "undefined"]
Null == [t |-> "null"]
Bool(b) == [t |-> "boolean", b |-> b]
Num(m, e) == [t |-> "number", m |-> m, e |-> e]
Str(s) == [t |-> "string", s |-> s]
Arr(a) == [t |-> "array", a |-> a]
Obj(o) == [t |-> "object", o |-> o]

EmptyMembers == [k \in {} |-> Undef]

\* property read item[key]; reading a property of null or undefined raises
GetThrows(item) == item.t \in {"undefined", "null"}

Get(item, key) ==
  IF item.t = "object" /\ key \in DOMAIN item.o THEN item.o[key] ELSE Undef

\* ToBoolean
Truthy(v) ==
  CASE v.t = "undefined" -> FALSE
    [] v.t = "null" -> FALSE
    [] v.t = "boolean" -> v.b
    [] v.t = "number" -> v.m # 0
    [] v.t = "string" -> v.s # ""
    [] OTHER -> TRUE

Abs(x) == IF x < 0 THEN -x ELSE x
Min(a, b) == IF a < b THEN a ELSE b
Max(a, b) == IF a > b THEN a ELSE b

RECURSIVE Pow2(_)
Pow2(n) == IF n <= 0 THEN 1 ELSE 2 * Pow2(n - 1)

RECURSIVE Pow10(_)
Pow10(n) == IF n <= 0 THEN 1 ELSE 10 * Pow10(n - 1)

RECURSIVE Rep(_, _)
Rep(c, n) ==
  IF n <= 0 THEN ""
  ELSE IF n = 1 THEN c
  ELSE Rep(c, n \div 2) \o Rep(c, n - (n \div 2))

CharAt(s, i) == SubSeq(s, i, i)

DecimalDigits == <<"0", "1", "2", "3", "4", "5", "6", "7", "8", "9">>
HexDigits == <<"0", "1", "2", "3", "4", "5", "6", "7", "8", "9",
               "a", "b", "c", "d", "e", "f">>
HexDigitsUpper == <<"0", "1", "2", "3", "4", "5", "6", "7", "8", "9",
                    "A", "B", "C", "D", "E", "F">>

RECURSIVE IntToStr(_)
IntToStr(n) ==
  IF n < 10 THEN DecimalDigits[n + 1]
  ELSE IntToStr(n \div 10) \o DecimalDigits[(n % 10) + 1]

\* Number::toString(x) for x = m * 10^e
NumberToString(num) ==
  LET digits == IntToStr(Abs(num.m))
      k == Len(digits)
      n == k + num.e
      sign == IF num.m < 0 THEN "-" ELSE ""
      expStr == (IF n - 1 < 0 THEN "-" ELSE "+") \o IntToStr(Abs(n - 1))
  IN  IF num.m = 0 THEN "0"
      ELSE IF k <= n /\ n <= 21 THEN sign \o digits \o Rep("0", n - k)
      ELSE IF 0 < n /\ n <= 21
        THEN sign \o SubSeq(digits, 1, n) \o "." \o SubSeq(digits, n + 1, k)
      ELSE IF -6 < n /\ n <= 0 THEN sign \o "0." \o Rep("0", -n) \o digits
      ELSE IF k = 1 THEN sign \o digits \o "e" \o expStr
      ELSE sign \o SubSeq(digits, 1, 1) \o "." \o SubSeq(digits, 2, k)
                \o "e" \o expStr

\* ToString, as parseInt applies it to its argument
RECURSIVE JSToString(_)
RECURSIVE JoinFrom(_, _)
JoinFrom(a, i) ==
  IF i > Len(a) THEN ""
  ELSE (IF i > 1 THEN "," ELSE "")
       \o (IF a[i].t \in {"undefined", "null"} THEN "" ELSE JSToString(a[i]))
       \o JoinFrom(a, i + 1)

JSToString(v) ==
  CASE v.t = "undefined" -> "undefined"
    [] v.t = "null" -> "null"
    [] v.t = "boolean" -> (IF v.b THEN "true" ELSE "false")
    [] v.t = "number" -> NumberToString(v)
    [] v.t = "string" -> v.s
    [] v.t = "array" -> JoinFrom(v.a, 1)
    [] OTHER -> "[object Object]"

WhiteSpace == {" ", "\t", "\n", "\r"}

RECURSIVE SkipWhiteSpace(_, _)
SkipWhiteSpace(s, i) ==
  IF i <= Len(s) /\ CharAt(s, i) \in WhiteSpace
    THEN SkipWhiteSpace(s, i + 1) ELSE i

\* value of the digit c in the radix, -1 when c is not a digit of it
DigitValue(c, radix) ==
  IF \E d \in 1..10 : DecimalDigits[d] = c
    THEN (CHOOSE d \in 1..10 : DecimalDigits[d] = c) - 1
  ELSE IF radix = 16 /\ \E d \in 1..16 : HexDigits[d] = c
    THEN (CHOOSE d \in 1..16 : HexDigits[d] = c) - 1
  ELSE IF radix = 16 /\ \E d \in 1..16 : HexDigitsUpper[d] = c
    THEN (CHOOSE d \in 1..16 : HexDigitsUpper[d] = c) - 1
  ELSE -1

RECURSIVE ReadDigits(_, _, _, _, _)
ReadDigits(s, i, radix, acc, seen) ==
  IF i <= Len(s) /\ DigitValue(CharAt(s, i), radix) >= 0
    THEN ReadDigits(s, i + 1, radix,
                    acc * radix + DigitValue(CharAt(s, i), radix), TRUE)
    ELSE [seen |-> seen, v |-> acc]

\* Number.parseInt(value) with no radix argument: [nan, v].  The steps are
\* operators of their own, each taking what the steps before it computed.
\* the digits from position j on, hexadecimal after a 0x or 0X prefix
parseIntDigits(s, j) ==
  IF j + 1 <= Len(s) /\ SubSeq(s, j, j + 1) \in {"0x", "0X"}
    THEN ReadDigits(s, j + 2, 16, 0, FALSE)
    ELSE ReadDigits(s, j, 10, 0, FALSE)

\* NaN when no digit was read, else the digits' value with the sign
parseIntSigned(neg, r) == [nan |-> ~r.seen, v |-> IF neg THEN -r.v ELSE r.v]

\* an optional sign at position i, the first one after the white space
parseIntAt(s, i) ==
  parseIntSigned(
    i <= Len(s) /\ CharAt(s, i) = "-",
    parseIntDigits(s, IF i <= Len(s) /\ CharAt(s, i) \in {"+", "-"}
                        THEN i + 1 ELSE i))

parseIntOf(s) == parseIntAt(s, SkipWhiteSpace(s, 1))

parseInt(value) == parseIntOf(JSToString(value))

\* the JavaScript number holding the integer n
RECURSIVE NumOfInt(_)
NumOfInt(n) ==
  IF n # 0 /\ n % 10 = 0
    THEN LET q == NumOfInt(n \div 10) IN Num(q.m, q.e + 1)
    ELSE Num(n, 0)

(***************************************************************************)
(* Validation helpers of AIService.                                        *)
(***************************************************************************)
ValidSentiments == {Str("Positive"), Str("Neutral"), Str("Negative")}
ValidAlignments == {Str("Highly Aligned"), Str("Aligned"),
                    Str("Partially Aligned"), Str("Not Aligned")}

validateSentiment_keep(sentiment) ==
  IF sentiment.t = "string" THEN sentiment ELSE Str("Neutral")

validateSentiment(sentiment) ==
  IF sentiment \in ValidSentiments THEN sentiment ELSE Str("Neutral")

validateScore(score) ==
  LET num == parseInt(score)
  IN  IF num.nan THEN NumOfInt(50) ELSE NumOfInt(Max(0, Min(100, num.v)))

validateAlignment(alignment) ==
  IF alignment \in ValidAlignments THEN alignment ELSE Str("Partially Aligned")

Slice(a, n) == SubSeq(a, 1, Min(n, Len(a)))
NonEmptyString(k) == k.t = "string" /\ Len(k.s) > 0

validateKeywords_last(keywords) ==
  IF keywords.t # "array"
    THEN Arr(<<Str("engagement"), Str("content"), Str("brand")>>)
    ELSE Arr(SelectSeq(SubSeq(keywords.a, Max(1, Len(keywords.a) - 4),
                              Len(keywords.a)), NonEmptyString))

validateKeywords_nofilter(keywords) ==
  IF keywords.t # "array"
    THEN Arr(<<Str("engagement"), Str("content"), Str("brand")>>)
    ELSE Arr(Slice(keywords.a, 5))

validateKeywords(keywords) ==
  IF keywords.t # "array"
    THEN Arr(<<Str("engagement"), Str("content"), Str("brand")>>)
    ELSE Arr(SelectSeq(Slice(keywords.a, 5), NonEmptyString))

validateQuote_early(quote, influencer, brand) ==
  IF quote.t # "string" \/ Len(quote.s) = 0
    THEN Str(influencer \o " shows moderate engagement with " \o brand
             \o " content.")
    ELSE IF Len(quote.s) > 149
      THEN Str(SubSeq(quote.s, 1, 147) \o "...")
      ELSE quote

validateQuote(quote, influencer, brand) ==
  IF quote.t # "string" \/ Len(quote.s) = 0
    THEN Str(influencer \o " shows moderate engagement with " \o brand
             \o " content.")
    ELSE IF Len(quote.s) > 150
      THEN Str(SubSeq(quote.s, 1, 147) \o "...")
      ELSE quote

\* item.postIndex on a null element raises a TypeError inside map
validateContentAnalysisThrows(analysis) ==
  /\ analysis.t = "array"
  /\ \E i \in 1..Len(analysis.a) : GetThrows(analysis.a[i])

validateContentAnalysisItem(item) ==
  Obj([postIndex |-> IF Truthy(Get(item, "postIndex"))
                       THEN Get(item, "postIndex") ELSE Num(1, 0),
       sentiment |-> validateSentiment(Get(item, "sentiment")),
       aiComment |-> IF Get(item, "aiComment").t = "string"
                       THEN Get(item, "aiComment")
                       ELSE Str("Standard engagement post"),
       brandMention |-> Bool(Truthy(Get(item, "brandMention")))])

validateContentAnalysis(analysis) ==
  IF analysis.t # "array" THEN Arr(<<>>)
  ELSE Arr([i \in 1..Len(analysis.a) |->
              validateContentAnalysisItem(analysis.a[i])])

validateRecommendations(recommendations) ==
  IF recommendations.t # "array"
    THEN Arr(<<Str("Monitor engagement trends")>>)
    ELSE Arr(SelectSeq(Slice(recommendations.a, 5), NonEmptyString))

validateRiskFactors(risks) ==
  IF risks.t # "array" THEN Arr(<<>>)
  ELSE Arr(SelectSeq(Slice(risks.a, 3), NonEmptyString))

validateOpportunities(opportunities) ==
  IF opportunities.t # "array"
    THEN Arr(<<Str("Explore collaboration opportunities")>>)
    ELSE Arr(SelectSeq(Slice(opportunities.a, 3), NonEmptyString))

validateEngagementInsights(insights) ==
  IF insights.t # "string" \/ Len(insights.s) = 0
    THEN Str("Engagement patterns show standard influencer activity with moderate audience interaction.")
    ELSE insights

(***************************************************************************)
(* The raw response text.  A text is pre \o body \o post, where pre and    *)
(* post are prose and body is the text of one JSON object (k = "object",   *)
(* v the object it deserializes to), a brace-delimited text that is not    *)
(* JSON (k = "invalid"), or absent (k = "none").  The braces of the body   *)
(* text enclose everything else in it, so for the regular expression the   *)
(* body is the three characters of BodySkeleton.                           *)
(***************************************************************************)
Text(pre, body, post) ==
  [t |-> "text", pre |-> pre, body |-> body, post |-> post]
NoBody == [k |-> "none", v |-> Undef]
InvalidBody == [k |-> "invalid", v |-> Undef]
JsonBody(o) == [k |-> "object", v |-> Obj(o)]

BodySkeleton == "{#}"

RawSkeleton(r) ==
  r.pre \o (IF r.body.k = "none" THEN "" ELSE BodySkeleton) \o r.post

FirstIndexOf(s, c) ==
  IF \E i \in 1..Len(s) : CharAt(s, i) = c
    THEN CHOOSE i \in 1..Len(s) :
           CharAt(s, i) = c /\ \A j \in 1..(i - 1) : CharAt(s, j) # c
    ELSE 0

LastIndexOf(s, c) ==
  IF \E i \in 1..Len(s) : CharAt(s, i) = c
    THEN CHOOSE i \in 1..Len(s) :
           CharAt(s, i) = c /\ \A j \in (i + 1)..Len(s) : CharAt(s, j) # c
    ELSE 0

\* aiResponse.match(/\{[\s\S]*\}/): leftmost "{", then greedy to the last "}"
JsonMatch(r) ==
  LET s == RawSkeleton(r)
      i == FirstIndexOf(s, "{")
      j == LastIndexOf(s, "}")
  IN  IF i > 0 /\ j > i THEN [found |-> TRUE, text |-> SubSeq(s, i, j)]
                        ELSE [found |-> FALSE, text |-> ""]

\* JSON.parse(jsonMatch[0]): the match deserializes when it is exactly the
\* text of the body object, or the two characters "{}"; a match that holds
\* prose of the response besides is a SyntaxError
JSONparse(r, text) ==
  IF text = BodySkeleton /\ r.body.k = "object" THEN [ok |-> TRUE, v |-> r.body.v]
  ELSE IF text = "{}" THEN [ok |-> TRUE, v |-> Obj(EmptyMembers)]
  ELSE [ok |-> FALSE, v |-> Undef]

ParseThrew(cause) ==
  [threw |-> TRUE, cause |-> cause, value |-> Undef]

parseAIResponse(response, brand, influencer) ==
  IF response.t # "text"
    THEN ParseThrew("TypeError")
  ELSE IF ~JsonMatch(response).found
    THEN ParseThrew("No JSON found in AI response")
  ELSE IF ~JSONparse(response, JsonMatch(response).text).ok
    THEN ParseThrew("SyntaxError")
  ELSE LET parsed == JSONparse(response, JsonMatch(response).text).v
       IN  IF validateContentAnalysisThrows(Get(parsed, "contentAnalysis"))
             THEN ParseThrew("TypeError")
             ELSE [threw |-> FALSE, cause |-> "",
                   value |-> Obj([
                     overallSentiment |->
                       validateSentiment(Get(parsed, "overallSentiment")),
                     sentimentScore |->
                       validateScore(Get(parsed, "sentimentScore")),
                     brandAlignment |->
                       validateAlignment(Get(parsed, "brandAlignment")),
                     topKeywords |->
                       validateKeywords(Get(parsed, "topKeywords")),
                     aiQuote |->
                       validateQuote(Get(parsed, "aiQuote"), influencer, brand),
                     contentAnalysis |->
                       validateContentAnalysis(Get(parsed, "contentAnalysis")),
                     recommendations |->
                       validateRecommendations(Get(parsed, "recommendations")),
                     riskFactors |->
                       validateRiskFactors(Get(parsed, "riskFactors")),
                     opportunities |->
                       validateOpportunities(Get(parsed, "opportunities")),
                     engagementInsights |->
                       validateEngagementInsights(
                         Get(parsed, "engagementInsights"))])]

(***************************************************************************)
(* generateMockResponse.  d holds the three Math.random() draws, already   *)
(* scaled and floored: d.s in 0..2, d.a in 0..3, d.j in 0..19.             *)
(***************************************************************************)
LowerCaseLetters == <<"a", "b", "c", "d", "e", "f", "g", "h", "i", "j", "k",
                      "l", "m", "n", "o", "p", "q", "r", "s", "t", "u", "v",
                      "w", "x", "y", "z">>
UpperCaseLetters == <<"A", "B", "C", "D", "E", "F", "G", "H", "I", "J", "K",
                      "L", "M", "N", "O", "P", "Q", "R", "S", "T", "U", "V",
                      "W", "X", "Y", "Z">>

UpperToLower ==
  [c \in {UpperCaseLetters[i] : i \in 1..26} |->
     LowerCaseLetters[CHOOSE i \in 1..26 : UpperCaseLetters[i] = c]]

LowerChar(c) == IF c \in DOMAIN UpperToLower THEN UpperToLower[c] ELSE c

RECURSIVE toLowerCase(_)
toLowerCase(s) ==
  IF s = "" THEN ""
  ELSE IF Len(s) = 1 THEN LowerChar(s)
  ELSE toLowerCase(SubSeq(s, 1, Len(s) \div 2))
       \o toLowerCase(SubSeq(s, (Len(s) \div 2) + 1, Len(s)))

includes(s, sub) ==
  \E i \in 1..(Len(s) - Len(sub) + 1) :
    /\ sub # "" => CharAt(s, i) = CharAt(sub, 1)
    /\ SubSeq(s, i, i + Len(sub) - 1) = sub

Sentiments == <<"Positive", "Neutral", "Negative">>
Alignments == <<"Highly Aligned", "Aligned", "Partially Aligned",
                "Not Aligned">>

mentionsBrand_exact(post, brand) == includes(post.caption, brand)

mentionsBrand(post, brand) ==
  includes(toLowerCase(post.caption), toLowerCase(brand))

generateMockResponse(brand, influencer, posts, d) ==
  LET randomSentiment == Sentiments[d.s + 1]
      randomAlignment == Alignments[d.a + 1]
      baseScore == IF randomSentiment = "Positive" THEN 75
                   ELSE IF randomSentiment = "Negative" THEN 35 ELSE 55
      score == Max(0, Min(100, baseScore + d.j - 10))
      brandMentions ==
        Cardinality({i \in 1..Len(posts) : mentionsBrand(posts[i], brand)})
  IN  Obj([
        overallSentiment |-> Str(randomSentiment),
        sentimentScore |-> NumOfInt(score),
        brandAlignment |-> Str(randomAlignment),
        topKeywords |-> Arr(<<Str("engagement"), Str("authentic"),
                              Str("lifestyle"), Str("community"),
                              Str("trending")>>),
        aiQuote |-> Str(influencer \o " demonstrates "
                        \o toLowerCase(randomSentiment)
                        \o " engagement with " \o brand
                        \o ", showing authentic connection with their audience."),
        contentAnalysis |-> Arr([i \in 1..Len(posts) |-> Obj([
            postIndex |-> NumOfInt(i),
            sentiment |-> Str(randomSentiment),
            aiComment |-> Str(randomSentiment
                              \o " sentiment with good engagement metrics"),
            brandMention |-> Bool(mentionsBrand(posts[i], brand))])]),
        recommendations |-> Arr(<<
            Str("Continue authentic content collaboration"),
            Str("Monitor engagement trends closely"),
            Str("Consider long-term partnership opportunities")>>),
        riskFactors |-> IF randomSentiment = "Negative"
            THEN Arr(<<Str("Potential brand misalignment"),
                       Str("Low engagement rates")>>)
            ELSE Arr(<<>>),
        opportunities |-> Arr(<<
            Str("Increase collaboration frequency"),
            Str("Explore new content formats"),
            Str("Leverage audience demographics")>>),
        engagementInsights |-> Str("Engagement patterns indicate "
            \o toLowerCase(randomSentiment) \o " audience connection with "
            \o IntToStr(brandMentions) \o " brand mentions across "
            \o IntToStr(Len(posts)) \o " posts.")])

(***************************************************************************)
(* MockDataService: generateMockPosts and the posts it creates.  The       *)
(* Math.random() draws of one post are the record d: whether the brand is  *)
(* mentioned, which end of the engagement range is hit, the minute.        *)
(***************************************************************************)
Platforms == {"instagram", "youtube", "tiktok", "twitter"}

\* this.baseEngagement[platform] || this.baseEngagement.instagram
baseEngagement(platform) ==
  CASE platform = "youtube" -> [likes |-> 15000, comments |-> 500, shares |-> 200]
    [] platform = "tiktok" -> [likes |-> 8000, comments |-> 300, shares |-> 400]
    [] platform = "twitter" -> [likes |-> 2000, comments |-> 100, shares |-> 150]
    [] OTHER -> [likes |-> 5000, comments |-> 200, shares |-> 50]

\* Math.floor(base * (1 + (Math.random() - 0.5) * 0.6)) at the two ends of
\* the range of Math.random(): 0.7 * base and just below 1.3 * base
varied(base, end) ==
  IF end = "low" THEN (base * 7) \div 10 ELSE ((base * 13) \div 10) - 1

generateEngagement(platform, end) ==
  LET base == baseEngagement(platform)
  IN  [likes |-> Max(100, varied(base.likes, end)),
       comments |-> Max(10, varied(base.comments, end)),
       shares |-> Max(5, varied(base.shares, end))]

\* one template of captionTemplates.withBrand and one of .withoutBrand
generateCaption(brand, hasBrandMention) ==
  IF hasBrandMention /\ brand # ""
    THEN "Why I choose " \o brand \o " every time #authentic #"
         \o toLowerCase(brand)
    ELSE "Coffee and good vibes #weekend #coffee"

\* publishedAt is counted in minutes from the hour of baseDate: posts lie 6
\* hours apart and setMinutes replaces the minute of the hour
createMockPost(influencer, brand, platform, index, d) ==
  [id |-> index,
   caption |-> generateCaption(brand, brand # "" /\ d.mention),
   engagement |-> generateEngagement(platform, d.eng),
   publishedAt |-> d.minute - (index * 360)]

\* posts.sort((a, b) => new Date(b.publishedAt) - new Date(a.publishedAt)),
\* a stable sort: newest first
RECURSIVE InsertByDate(_, _)
InsertByDate(sorted, post) ==
  IF sorted = <<>> THEN <<post>>
  ELSE IF Head(sorted).publishedAt >= post.publishedAt
    THEN <<Head(sorted)>> \o InsertByDate(Tail(sorted), post)
    ELSE <<post>> \o sorted

RECURSIVE SortByDate(_, _)
SortByDate(posts, n) ==
  IF n = 0 THEN <<>> ELSE InsertByDate(SortByDate(posts, n - 1), posts[n])

\* for (let i = 0; i < count; i++) posts.push(createMockPost(..., i, ...))
generateMockPosts(influencer, brand, platform, count, ds) ==
  LET posts == [i \in 1..count |->
                  createMockPost(influencer, brand, platform, i - 1, ds[i])]
  IN  SortByDate(posts, Len(posts))

\* which posts draw a brand mention: every choice for short lists, three
\* choices for long ones
MentionMasks(n) ==
  IF n <= MaxPosts THEN SUBSET (1..n) ELSE {{}, 1..n, 1..(n \div 2)}

\* the engagement draws of a list: all low, all high, or alternating
EngagementEnd(pattern, i) ==
  IF pattern = "mixed" THEN (IF i % 2 = 1 THEN "low" ELSE "high")
  ELSE pattern

PostDrawSeqs(n) ==
  {[i \in 1..n |-> [mention |-> i \in mask,
                    eng |-> EngagementEnd(pattern, i), minute |-> m]] :
     mask \in MentionMasks(n), pattern \in {"low", "high", "mixed"},
     m \in {0, 59}}

(***************************************************************************)
(* AnalyzeController: formatAnalysisResponse, calculateSentimentDistribu-  *)
(* tion and generateInsightTags.                                           *)
(***************************************************************************)
\* 0 / 0 and n / 0 for n > 0, and Math.round of them
NaN == [t |-> "NaN"]
Infinity == [t |-> "Infinity"]

\* Math.round(a / b) for integers a >= 0 and b >= 0: halves round up
roundDiv(a, b) ==
  IF b = 0 THEN (IF a = 0 THEN NaN ELSE Infinity)
  ELSE NumOfInt(((2 * a) + b) \div (2 * b))

\* x >= n and x <= n for a number x and an integer n
NumGE(x, n) ==
  /\ x.t = "number"
  /\ IF x.e >= 0 THEN x.m * Pow10(x.e) >= n ELSE x.m >= n * Pow10(-x.e)
NumLE(x, n) ==
  /\ x.t = "number"
  /\ IF x.e >= 0 THEN x.m * Pow10(x.e) <= n ELSE x.m <= n * Pow10(-x.e)

\* if (!contentAnalysis || contentAnalysis.length === 0)
DistributionDefault_missingOnly(contentAnalysis) == ~Truthy(contentAnalysis)

DistributionDefault(contentAnalysis) ==
  \/ ~Truthy(contentAnalysis)
  \/ contentAnalysis.t = "array" /\ Len(contentAnalysis.a) = 0

\* contentAnalysis.filter((item) => item.sentiment === s).length
CountSentiment(a, s) ==
  Cardinality({i \in 1..Len(a) : Get(a[i], "sentiment") = Str(s)})

\* contentAnalysis is an array, undefined or null
calculateSentimentDistribution(contentAnalysis) ==
  IF DistributionDefault(contentAnalysis)
    THEN [positive |-> NumOfInt(50), neutral |-> NumOfInt(30),
          negative |-> NumOfInt(20)]
    ELSE LET total == Len(contentAnalysis.a)
             positive == CountSentiment(contentAnalysis.a, "Positive")
             negative == CountSentiment(contentAnalysis.a, "Negative")
             neutral == total - positive - negative
         IN  [positive |-> roundDiv(positive * 100, total),
              neutral |-> roundDiv(neutral * 100, total),
              negative |-> roundDiv(negative * 100, total)]

\* the six rules of generateInsightTags, each giving zero or one tag
sentimentTag_noElse(score) ==
  (IF NumGE(score, 80) THEN <<"Excellent Brand Advocate">> ELSE <<>>)
  \o (IF NumGE(score, 60) THEN <<"Positive Brand Impact">> ELSE <<>>)
  \o (IF NumLE(score, 40) THEN <<"Needs Attention">> ELSE <<>>)

sentimentTag(score) ==
  IF NumGE(score, 80) THEN <<"Excellent Brand Advocate">>
  ELSE IF NumGE(score, 60) THEN <<"Positive Brand Impact">>
  ELSE IF NumLE(score, 40) THEN <<"Needs Attention">>
  ELSE <<>>

alignmentTag(alignment) ==
  IF alignment \in {Str("Highly Aligned"), Str("Aligned")}
    THEN <<"Brand Aligned">>
  ELSE IF alignment = Str("Not Aligned") THEN <<"Misaligned Content">>
  ELSE <<>>

\* mentionRate = (brandMentions / totalPosts) * 100: NaN for 0 / 0, which
\* is neither >= 70 nor <= 30
mentionTag(brandMentions, totalPosts) ==
  IF totalPosts = 0
    THEN (IF brandMentions > 0 THEN <<"High Brand Visibility">> ELSE <<>>)
  ELSE IF brandMentions * 100 >= 70 * totalPosts
    THEN <<"High Brand Visibility">>
  ELSE IF brandMentions * 100 <= 30 * totalPosts
    THEN <<"Low Brand Mentions">>
  ELSE <<>>

\* aiAnalysis.riskFactors && aiAnalysis.riskFactors.length > 0
riskTag(riskFactors) ==
  IF \/ riskFactors.t = "array" /\ Len(riskFactors.a) > 0
     \/ riskFactors.t = "string" /\ Len(riskFactors.s) > 0
    THEN <<"Risk Identified">> ELSE <<>>

\* topKeywords.some((keyword) => words.includes(keyword.toLowerCase()))
keywordTag(topKeywords, words, tag) ==
  IF \E i \in 1..Len(topKeywords.a) :
       toLowerCase(topKeywords.a[i].s) \in words
    THEN <<tag>> ELSE <<>>

\* tags.slice(0, 5)
limitTags_all(tags) == tags

limitTags(tags) == Slice(tags, 5)

generateInsightTags(aiAnalysis, brandMentions, totalPosts) ==
  limitTags(
    sentimentTag(Get(aiAnalysis, "sentimentScore"))
    \o alignmentTag(Get(aiAnalysis, "brandAlignment"))
    \o mentionTag(brandMentions, totalPosts)
    \o riskTag(Get(aiAnalysis, "riskFactors"))
    \o keywordTag(Get(aiAnalysis, "topKeywords"),
                  {"authentic", "genuine", "real"}, "Authentic Voice")
    \o keywordTag(Get(aiAnalysis, "topKeywords"),
                  {"engagement", "community", "followers"},
                  "High Engagement"))

\* x || fallback
OrElse(x, fallback) == IF Truthy(x) THEN x ELSE fallback

\* aiAnalysis.contentAnalysis[index]
ElementAt(arr, i) ==
  IF arr.t = "array" /\ i <= Len(arr.a) THEN arr.a[i] ELSE Undef

RECURSIVE SumEngagement(_, _)
SumEngagement(posts, n) ==
  IF n = 0 THEN 0
  ELSE SumEngagement(posts, n - 1) + posts[n].engagement.likes
       + posts[n].engagement.comments
       + (IF posts[n].engagement.shares # 0
            THEN posts[n].engagement.shares ELSE 0)

\* reading [index] of an undefined or null contentAnalysis raises when the
\* first post is mapped
formatThrows(posts, aiAnalysis) ==
  Len(posts) > 0 /\ GetThrows(Get(aiAnalysis, "contentAnalysis"))

\* the object formatAnalysisResponse returns; processingTime and timestamp
\* (clock readings) are left out
formatAnalysisResponse(influencer, brand, platform, posts, aiAnalysis) ==
  LET totalEngagement == SumEngagement(posts, Len(posts))
      averageEngagement == roundDiv(totalEngagement, Len(posts))
      brandMentions ==
        Cardinality({i \in 1..Len(posts) : mentionsBrand(posts[i], brand)})
      analysis == Get(aiAnalysis, "contentAnalysis")
  IN  [success |-> TRUE,
       data |-> [
         sentimentScore |-> Get(aiAnalysis, "sentimentScore"),
         overallSentiment |-> Get(aiAnalysis, "overallSentiment"),
         brandAlignment |-> Get(aiAnalysis, "brandAlignment"),
         aiQuote |-> Get(aiAnalysis, "aiQuote"),
         topKeywords |-> Get(aiAnalysis, "topKeywords"),
         recommendations |-> Get(aiAnalysis, "recommendations"),
         riskFactors |-> Get(aiAnalysis, "riskFactors"),
         opportunities |-> OrElse(Get(aiAnalysis, "opportunities"),
                                  Arr(<<>>)),
         contentAnalysis |-> [i \in 1..Len(posts) |-> [
           id |-> posts[i].id,
           caption |-> posts[i].caption,
           engagement |-> posts[i].engagement,
           publishedAt |-> posts[i].publishedAt,
           aiComment |-> OrElse(Get(ElementAt(analysis, i), "aiComment"),
                                Str("Standard engagement post")),
           sentiment |-> OrElse(Get(ElementAt(analysis, i), "sentiment"),
                                Str("Neutral")),
           brandMention |-> mentionsBrand(posts[i], brand)]],
         summary |-> [
           totalPosts |-> Len(posts),
           totalEngagement |-> totalEngagement,
           averageEngagement |-> averageEngagement,
           brandMentions |-> brandMentions,
           brandMentionRate |-> roundDiv(brandMentions * 100, Len(posts)),
           sentimentDistribution |->
             calculateSentimentDistribution(analysis)],
         tags |-> generateInsightTags(aiAnalysis, brandMentions,
                                      Len(posts))],
       metadata |-> [influencer |-> influencer, brand |-> brand,
                     platform |-> platform, postsAnalyzed |-> Len(posts)]]

(***************************************************************************)
(* Inputs: requests, endpoint behaviours, response texts.                  *)
(***************************************************************************)
MaxInfluencerLen == 50
MaxBrandLen == 100

Captions == {"Loving my new Nike kicks #nike", "Morning coffee vibes"}

PostLists ==
  UNION {[1..n -> {[caption |-> c] : c \in Captions}] : n \in 1..MaxPosts}

Requests ==
  {[brand |-> "nike", influencer |-> "techguru", posts |-> p] :
     p \in PostLists}
  \cup {[brand |-> "Acme Co", influencer |-> "fit.sarah_99",
         posts |-> <<[caption |-> "New ACME CO drop"],
                     [caption |-> "Morning coffee vibes"]>>]}

\* brand and influencer at the lengths validateAnalysisRequest allows
BrandsAndInfluencers ==
  {[brand |-> "nike", influencer |-> "techguru"],
   [brand |-> Rep("B", MaxBrandLen),
    influencer |-> Rep("a", MaxInfluencerLen)]}

NoRequest == [brand |-> "", influencer |-> "", posts |-> <<>>]

\* Math.floor(Math.random() * 3), * 4 and * 20
MockDraws == [s : 0..2, a : {0, 3}, j : {0, 19}]
NoDraws == [s |-> -1, a |-> -1, j |-> -1]

\* values of process.env.OPENAI_MAX_RETRIES
EnvMaxRetries ==
  {Undef, Str("-1")} \cup {Str(IntToStr(n)) : n \in 0..MaxEnvRetries}

\* errors of one HTTP attempt; status 0 is an error without error.response
\* (timeout, network), TypeError is a 200 body without choices[0].message
HttpError(name, status) == [t |-> "error", name |-> name, status |-> status]
HttpErrors ==
  {HttpError("AxiosError", 401), HttpError("AxiosError", 403),
   HttpError("AxiosError", 500), HttpError("AxiosError", 429),
   HttpError("AxiosError", 0), HttpError("TypeError", 0)}

FieldNames == {"overallSentiment", "sentimentScore", "brandAlignment",
               "topKeywords", "aiQuote", "contentAnalysis",
               "recommendations", "riskFactors", "opportunities",
               "engagementInsights"}

ValidItem ==
  Obj([postIndex |-> Num(1, 0), sentiment |-> Str("Positive"),
       aiComment |-> Str("Authentic product mention"),
       brandMention |-> Bool(TRUE)])

ValidMembers ==
  [overallSentiment |-> Str("Positive"),
   sentimentScore |-> Num(82, 0),
   brandAlignment |-> Str("Aligned"),
   topKeywords |-> Arr(<<Str("authentic"), Str("fitness")>>),
   aiQuote |-> Str("Strong, credible voice for the brand."),
   contentAnalysis |-> Arr(<<ValidItem>>),
   recommendations |-> Arr(<<Str("Extend the partnership")>>),
   riskFactors |-> Arr(<<Str("Audience overlap")>>),
   opportunities |-> Arr(<<Str("Launch a co-branded line")>>),
   engagementInsights |-> Str("Engagement is steady.")]

WrongMembers ==
  [overallSentiment |-> Num(1, 0),
   sentimentScore |-> Str("high"),
   brandAlignment |-> Null,
   topKeywords |-> Str("authentic, fitness"),
   aiQuote |-> Num(7, 0),
   contentAnalysis |-> Obj(EmptyMembers),
   recommendations |-> Null,
   riskFactors |-> Str("none"),
   opportunities |-> Bool(TRUE),
   engagementInsights |-> Arr(<<>>)]

With(o, f, v) == [k \in DOMAIN o \cup {f} |-> IF k = f THEN v ELSE o[k]]
Without(o, f) == [k \in DOMAIN o \ {f} |-> o[k]]

OddValues ==
  {Null, Bool(TRUE), Bool(FALSE), Num(0, 0), Num(7, 0), Str(""), Str("abc"),
   Arr(<<>>), Obj(EmptyMembers)}

SentimentPool ==
  ValidSentiments \cup {Str("positive"), Str("Mixed")} \cup OddValues

AlignmentPool ==
  ValidAlignments \cup {Str("aligned"), Str("Strongly Aligned")}
  \cup OddValues

ScorePool ==
  {Num(-5, 0), Num(55, 0), Num(1, 2), Num(101, 0), Num(12, 1),
   Num(555, -1), Num(-25, -1), Num(1, 21), Num(25, 21), Num(-1, 21),
   Num(1, -7), Num(1, -6),
   Str("85"), Str("85%"), Str(" 42"), Str("-3"), Str("250"), Str("high"),
   Str("0x1F"), Arr(<<Num(7, 1)>>)}
  \cup OddValues

StrArr(n) == [i \in 1..n |-> Str("k" \o IntToStr(i))]
BadElements == {Str(""), Null, Num(3, 0)}

ArrayPool ==
  {Arr(StrArr(n)) : n \in 0..MaxArrLen}
  \cup UNION {{Arr([StrArr(n) EXCEPT ![p] = bad]) :
                  p \in 1..n, bad \in BadElements} : n \in 1..MaxArrLen}
  \cup OddValues

\* a quote of n characters, no two neighbours equal
QuoteText(n) ==
  SubSeq(Rep("abcdefghijklmnopqrstuvwxyz", (n \div 26) + 1), 1, n)

QuotePool ==
  {Str(QuoteText(n)) : n \in {1, 147, 149, 150, 151, 152, 200}}
  \cup OddValues

InsightsPool == {Str("Engagement is steady."), Str("x")} \cup OddValues

ItemPool ==
  {ValidItem,
   Obj([postIndex |-> Num(2, 0), sentiment |-> Str("Negative"),
        aiComment |-> Str(""), brandMention |-> Bool(FALSE)]),
   Obj(EmptyMembers), Null, Num(5, 0), Str("post"),
   Obj([postIndex |-> Str("two")]), Obj([postIndex |-> Num(0, 0)]),
   Obj([postIndex |-> Num(-3, 0)]), Obj([postIndex |-> Num(25, -1)]),
   Obj([postIndex |-> Num(2, 0), sentiment |-> Str("Negative")]),
   Obj([postIndex |-> Num(3, 0), sentiment |-> Str("great")]),
   Obj([aiComment |-> Num(4, 0), brandMention |-> Str("yes")]),
   Obj([aiComment |-> Str(""), brandMention |-> Num(0, 0)]),
   Obj([aiComment |-> Null, brandMention |-> Null])}

ContentAnalysisPool ==
  {Arr(a) : a \in UNION {[1..n -> ItemPool] : n \in 0..MaxItems}}
  \cup OddValues

FieldPool(f) ==
  CASE f = "overallSentiment" -> SentimentPool
    [] f = "sentimentScore" -> ScorePool
    [] f = "brandAlignment" -> AlignmentPool
    [] f = "aiQuote" -> QuotePool
    [] f = "contentAnalysis" -> ContentAnalysisPool
    [] f = "engagementInsights" -> InsightsPool
    [] OTHER -> ArrayPool

Bases == {ValidMembers, EmptyMembers, WrongMembers}

\* parsed objects: a base object with one member replaced or removed
ParsedPool ==
  Bases
  \cup {With(b, f, v) : b \in Bases, f \in FieldNames, v \in {Null}}
  \cup UNION {UNION {{With(b, f, v) : v \in FieldPool(f)} : f \in FieldNames} :
                b \in Bases}
  \cup {Without(ValidMembers, f) : f \in FieldNames}

Wrappers ==
  {<<"", "">>, <<"~~~json\n", "\n~~~">>, <<"Here is the analysis: ", "">>,
   <<"", " Hope this helps :}">>, <<"Draft {v1}: ", "">>}

ProseResponses ==
  {Text("I cannot analyze this content.", NoBody, ""),
   Text("Result: {positive} overall", NoBody, ""),
   Text("} nothing {", NoBody, ""),
   Text("An empty object {} is all I have", NoBody, ""),
   Text("", InvalidBody, ""),
   Text("Sure: ", InvalidBody, "")}

NormalizeInputs ==
  {Text("", JsonBody(o), "") : o \in ParsedPool}
  \cup {Text(w[1], JsonBody(b), w[2]) : w \in Wrappers, b \in Bases}
  \cup ProseResponses

\* what response.data.choices[0].message.content can be in the pipeline
PipelineResponses ==
  {Text("", JsonBody(ValidMembers), ""),
   Text("~~~json\n", JsonBody(ValidMembers), "\n~~~"),
   Text("", JsonBody(EmptyMembers), ""),
   Text("", JsonBody(With(ValidMembers, "contentAnalysis", Arr(<<Null>>))), ""),
   Text("", JsonBody(ValidMembers), " Hope this helps :}"),
   Text("I cannot analyze this content.", NoBody, ""),
   Text("", InvalidBody, ""),
   Null}

(***************************************************************************)
(* The request state machine: analyzeInfluencerContent and, inside it,     *)
(* makeOpenAIRequest.  A step runs the code from one await to the next.    *)
(***************************************************************************)
\* constructor: Number.parseInt(process.env.OPENAI_MAX_RETRIES) || 3
constructorMaxRetries(env) ==
  LET n == parseInt(env) IN IF n.nan \/ n.v = 0 THEN 3 ELSE n.v

NoRequestBody == Undef
NoResponse == [status |-> 0, sent |-> FALSE, json |-> Undef]
NoParse == [threw |-> FALSE, cause |-> "not called", value |-> Undef]
Pending == [state |-> "pending", source |-> "none", value |-> Undef]
Call(n) == [ev |-> "call", n |-> n]
Sleep(ms) == [ev |-> "sleep", n |-> ms]

\* for (...; attempt <= this.maxRetries; ...)
LoopContinues(a) == a <= maxRetries

\* error.response?.status === 401 || error.response?.status === 403
NonRetryable_only401(err) == err.status = 401

NonRetryable(err) == err.status = 401 \/ err.status = 403

\* if (attempt < this.maxRetries)
ShouldBackoff(a) == a < maxRetries

\* Math.pow(2, attempt) * 1000
backoffDelay_halved(a) == Pow2(a - 1) * 1000

backoffDelay(a) == Pow2(a) * 1000

(***************************************************************************)
(* The module-level arrays of routes/tracker.js and routes/briefs.js as    *)
(* they are when the server starts.  Times are counted in clock ticks;     *)
(* the clock starts at 10, after every time the seed entries carry, so     *)
(* that no Date.now().toString() is the id of a seed entry.                *)
(***************************************************************************)
Tracker(id, handle, platform, category, brand, addedAt, lastUpdate) ==
  [id |-> id, handle |-> handle, platform |-> platform,
   category |-> category, brand |-> brand, isActive |-> TRUE,
   addedAt |-> addedAt, lastUpdate |-> lastUpdate,
   followers |-> 0, engagementRate |-> 0, recentPosts |-> 0]

\* engagementRate is counted in tenths: 42 is 4.2
SeedTrackers ==
  <<[Tracker("1", "@techguru", "youtube", "influencer", Str("TechBrand"),
             Num(0, 0), Num(-2, 0))
       EXCEPT !.followers = 125000, !.engagementRate = 42,
              !.recentPosts = 3],
    [Tracker("2", "@competitor_brand", "instagram", "competitor",
             Str("CompetitorBrand"), Num(0, 0), Num(-1, 0))
       EXCEPT !.followers = 89000, !.engagementRate = 38,
              !.recentPosts = 5]>>

\* a brief: ref tells the objects apart (two briefs can carry the same id);
\* niche stands for the title made of it, and `content` says whether
\* summary, keyTrends, alerts, topPerformers and recommendations hold the
\* placeholders of a pending brief or the generated texts
Brief(ref, id, niche, status, createdAt, deliveredAt) ==
  [ref |-> ref, id |-> id, niche |-> niche, status |-> status,
   content |-> IF status = "delivered" THEN "generated" ELSE "none",
   createdAt |-> createdAt, deliveredAt |-> deliveredAt]

SeedBriefs ==
  <<Brief(1, "1", "tech", "delivered", Num(1, 0), Num(2, 0)),
    Brief(2, "2", "fashion", "delivered", Num(3, 0), Num(4, 0))>>

NoServed == [op |-> "none", n |-> 0]

StoreInit ==
  /\ call = <<>>
  /\ frame = <<>>
  /\ now = 10
  /\ trackedInfluencers = SeedTrackers
  /\ trendBriefs = SeedBriefs
  /\ timers = <<>>
  /\ served = NoServed

Init ==
  /\ StoreInit
  /\ apiKey \in BOOLEAN
  /\ \E env \in EnvMaxRetries : maxRetries = constructorMaxRetries(env)
  /\ pc = "idle"
  /\ req = NoRequest
  /\ attempt = 0
  /\ calls = 0
  /\ inflight = 0
  /\ log = <<>>
  /\ lastError = Undef
  /\ aiResponse = Undef
  /\ parseOut = NoParse
  /\ thrown = "none"
  /\ draws = NoDraws
  /\ outcome = Pending
  /\ reqBody = NoRequestBody
  /\ res = NoResponse

\* the catch block of analyzeInfluencerContent, entered with the thrown
\* value err: reading error.message of undefined raises inside the catch
\* block and the promise rejects; otherwise generateMockResponse is returned
CatchFallback(err, who) ==
  /\ thrown' = who
  /\ pc' = "done"
  /\ IF err.t = "undefined"
       THEN /\ outcome' = [state |-> "rejected", source |-> "none",
                           value |-> Undef]
            /\ draws' = draws
       ELSE \E d \in MockDraws :
              /\ draws' = d
              /\ outcome' = [state |-> "resolved", source |-> "mock",
                             value |-> generateMockResponse(
                               req.brand, req.influencer, req.posts, d)]

\* top of the for loop of makeOpenAIRequest with attempt = a and
\* `outstanding` unsettled calls: either the next axios.post is issued or
\* the loop ends and lastError (err) is thrown to analyzeInfluencerContent
LoopTop(a, err, outstanding) ==
  /\ attempt' = a
  /\ IF LoopContinues(a)
       THEN /\ calls' = calls + 1
            /\ inflight' = outstanding + 1
            /\ log' = Append(log, Call(a))
            /\ pc' = "http"
            /\ UNCHANGED <<thrown, draws, outcome>>
       ELSE /\ CatchFallback(err, "makeOpenAIRequest")
            /\ inflight' = outstanding
            /\ UNCHANGED <<calls, log>>

\* if (!this.apiKey)
MockMode_never == FALSE

MockMode == ~apiKey

\* no API key: the mock response is returned without reaching the gateway
StartNoKey(r, d) ==
  /\ MockMode
  /\ req' = r
  /\ draws' = d
  /\ outcome' = [state |-> "resolved", source |-> "mock",
                 value |-> generateMockResponse(r.brand, r.influencer,
                                                r.posts, d)]
  /\ pc' = "done"
  /\ UNCHANGED <<apiKey, maxRetries, attempt, calls, inflight, log,
                 lastError, aiResponse, parseOut, thrown>>

AnalyzeNoKey(r, d) ==
  /\ UNCHANGED storeVars
  /\ pc = "idle"
  /\ UNCHANGED <<reqBody, res>>
  /\ StartNoKey(r, d)

\* API key set: buildAnalysisPrompt, then makeOpenAIRequest up to its first
\* await.  With maxRetries < 1 the loop body never runs and `throw
\* lastError` throws undefined.
StartWithKey(r) ==
  /\ ~MockMode
  /\ req' = r
  /\ lastError' = Undef
  /\ LoopTop(1, Undef, inflight)
  /\ UNCHANGED <<apiKey, maxRetries, aiResponse, parseOut>>

AnalyzeWithKey(r) ==
  /\ UNCHANGED storeVars
  /\ pc = "idle"
  /\ UNCHANGED <<reqBody, res>>
  /\ StartWithKey(r)

\* axios.post resolved and the body holds choices[0].message.content:
\* makeOpenAIRequest returns it and parseAIResponse normalizes it
HttpSuccessParsed(resp) ==
  /\ UNCHANGED storeVars
  /\ pc = "http"
  /\ UNCHANGED <<reqBody, res>>
  /\ ~parseAIResponse(resp, req.brand, req.influencer).threw
  /\ inflight' = inflight - 1
  /\ aiResponse' = resp
  /\ parseOut' = parseAIResponse(resp, req.brand, req.influencer)
  /\ outcome' = [state |-> "resolved", source |-> "ai",
                 value |-> parseOut'.value]
  /\ pc' = "done"
  /\ UNCHANGED <<apiKey, maxRetries, req, attempt, calls, log, lastError,
                 thrown, draws>>

\* as above, but parseAIResponse throws and the catch block falls back
HttpSuccessUnparsed(resp) ==
  /\ UNCHANGED storeVars
  /\ pc = "http"
  /\ UNCHANGED <<reqBody, res>>
  /\ parseAIResponse(resp, req.brand, req.influencer).threw
  /\ inflight' = inflight - 1
  /\ aiResponse' = resp
  /\ parseOut' = parseAIResponse(resp, req.brand, req.influencer)
  /\ CatchFallback(HttpError("Error", 0), "parseAIResponse")
  /\ UNCHANGED <<apiKey, maxRetries, req, attempt, calls, log, lastError>>

\* the attempt failed with 401 or 403: the error is rethrown at once
HttpAuthFailure(err) ==
  /\ UNCHANGED storeVars
  /\ pc = "http"
  /\ UNCHANGED <<reqBody, res>>
  /\ NonRetryable(err)
  /\ inflight' = inflight - 1
  /\ lastError' = err
  /\ CatchFallback(err, "makeOpenAIRequest")
  /\ UNCHANGED <<apiKey, maxRetries, req, attempt, calls, log, aiResponse,
                 parseOut>>

\* the attempt failed, another one is left: sleep before it
HttpFailureBackoff(err) ==
  /\ UNCHANGED storeVars
  /\ pc = "http"
  /\ UNCHANGED <<reqBody, res>>
  /\ ~NonRetryable(err)
  /\ ShouldBackoff(attempt)
  /\ inflight' = inflight - 1
  /\ lastError' = err
  /\ log' = Append(log, Sleep(backoffDelay(attempt)))
  /\ pc' = "backoff"
  /\ UNCHANGED <<apiKey, maxRetries, req, attempt, calls, aiResponse,
                 parseOut, thrown, draws, outcome>>

\* the attempt failed and no sleep is due: attempt++ and back to the loop top
HttpFailureFinal(err) ==
  /\ UNCHANGED storeVars
  /\ pc = "http"
  /\ UNCHANGED <<reqBody, res>>
  /\ ~NonRetryable(err)
  /\ ~ShouldBackoff(attempt)
  /\ lastError' = err
  /\ LoopTop(attempt + 1, err, inflight - 1)
  /\ UNCHANGED <<apiKey, maxRetries, req, aiResponse, parseOut>>

\* the backoff timer fired: attempt++ and back to the loop top
BackoffDone ==
  /\ UNCHANGED storeVars
  /\ pc = "backoff"
  /\ UNCHANGED <<reqBody, res>>
  /\ LoopTop(attempt + 1, lastError, inflight)
  /\ UNCHANGED <<apiKey, maxRetries, req, lastError, aiResponse, parseOut>>

\* the promise is settled and the service is ready for the next request;
\* nothing of the finished call is kept (all of it was local to the call)
Finish ==
  /\ UNCHANGED storeVars
  /\ pc = "done"
  /\ UNCHANGED <<reqBody, res>>
  /\ pc' = "idle"
  /\ req' = NoRequest
  /\ attempt' = 0
  /\ calls' = 0
  /\ inflight' = 0
  /\ log' = <<>>
  /\ lastError' = Undef
  /\ aiResponse' = Undef
  /\ parseOut' = NoParse
  /\ thrown' = "none"
  /\ draws' = NoDraws
  /\ outcome' = Pending
  /\ UNCHANGED <<apiKey, maxRetries>>

Next ==
  \/ \E r \in Requests, d \in MockDraws : AnalyzeNoKey(r, d)
  \/ \E r \in Requests : AnalyzeWithKey(r)
  \/ \E resp \in PipelineResponses : HttpSuccessParsed(resp)
  \/ \E resp \in PipelineResponses : HttpSuccessUnparsed(resp)
  \/ \E err \in HttpErrors : HttpAuthFailure(err)
  \/ \E err \in HttpErrors : HttpFailureBackoff(err)
  \/ \E err \in HttpErrors : HttpFailureFinal(err)
  \/ BackoffDone
  \/ Finish

Spec == Init /\ [][Next]_vars

(***************************************************************************)
(* Two calls of analyzeInfluencerContent in flight at once on the one      *)
(* AIService the module exports.  Each call is an invocation of            *)
(* makeOpenAIRequest with a frame of its own for `attempt` and             *)
(* `lastError`; the calls interleave at every await.  What the endpoint    *)
(* answers to the attempts of one call is fixed by the call's script: the  *)
(* first `fails` attempts fail with `err`, every later one is answered     *)
(* with a body that parseAIResponse accepts (`parsed`) or not.             *)
(***************************************************************************)
Callers == {"a", "b"}

Script(fails, err, parsed) ==
  [fails |-> fails, err |-> err, parsed |-> parsed]

Scripts ==
  {Script(k, e, p) :
     k \in 0..MaxEnvRetries,
     e \in {HttpError("AxiosError", 401), HttpError("AxiosError", 500)},
     p \in BOOLEAN}

\* what the endpoint answers to the n-th axios.post of a call
Answer(script, n) ==
  IF n <= script.fails
    THEN script.err
    ELSE [t |-> "ok", name |-> "response", status |-> 200,
          parsed |-> script.parsed]

\* `let lastError` and `let attempt` belong to the invocation
frameOf_shared(c) == "a"

frameOf(c) == c

Frame(a, err) == [attempt |-> a, lastError |-> err]

InFlight(c) == call[c].pc \in {"http", "backoff"}

\* the catch block of analyzeInfluencerContent for the call cl
ConcCatch(cl, err) ==
  [cl EXCEPT !.pc = "done",
             !.kind = IF err.t = "undefined" THEN "rejected" ELSE "mock"]

\* top of the for loop in the invocation of call c
ConcLoopTop(c, a, err) ==
  /\ frame' = [frame EXCEPT ![frameOf(c)] = Frame(a, err)]
  /\ call' = [call EXCEPT ![c] =
                IF LoopContinues(a)
                  THEN [@ EXCEPT !.pc = "http", !.made = @ + 1]
                  ELSE ConcCatch(@, err)]

ConcAnalyzeNoKey(c) ==
  /\ call[c].pc = "idle"
  /\ MockMode
  /\ call' = [call EXCEPT ![c].pc = "done", ![c].kind = "mock"]
  /\ UNCHANGED <<frame, now, trackedInfluencers, trendBriefs, timers,
                 served>>
  /\ UNCHANGED analysisVars

ConcAnalyzeWithKey(c) ==
  /\ call[c].pc = "idle"
  /\ ~MockMode
  /\ frame' = [frame EXCEPT ![frameOf(c)] = Frame(1, Undef)]
  /\ call' = [call EXCEPT ![c] =
                IF LoopContinues(1)
                  THEN [@ EXCEPT !.pc = "http", !.made = @ + 1,
                                 !.met = \E o \in Callers : InFlight(o)]
                  ELSE ConcCatch(@, Undef)]
  /\ UNCHANGED <<now, trackedInfluencers, trendBriefs, timers, served>>
  /\ UNCHANGED analysisVars

ConcHttpSuccessParsed(c) ==
  /\ call[c].pc = "http"
  /\ Answer(call[c].script, call[c].made).t = "ok"
  /\ Answer(call[c].script, call[c].made).parsed
  /\ call' = [call EXCEPT ![c].pc = "done", ![c].kind = "ai"]
  /\ UNCHANGED <<frame, now, trackedInfluencers, trendBriefs, timers,
                 served>>
  /\ UNCHANGED analysisVars

ConcHttpSuccessUnparsed(c) ==
  /\ call[c].pc = "http"
  /\ Answer(call[c].script, call[c].made).t = "ok"
  /\ ~Answer(call[c].script, call[c].made).parsed
  /\ call' = [call EXCEPT ![c] = ConcCatch(@, HttpError("Error", 0))]
  /\ UNCHANGED <<frame, now, trackedInfluencers, trendBriefs, timers,
                 served>>
  /\ UNCHANGED analysisVars

ConcHttpAuthFailure(c) ==
  /\ call[c].pc = "http"
  /\ Answer(call[c].script, call[c].made).t = "error"
  /\ NonRetryable(Answer(call[c].script, call[c].made))
  /\ frame' = [frame EXCEPT ![frameOf(c)].lastError =
                 Answer(call[c].script, call[c].made)]
  /\ call' = [call EXCEPT ![c] =
                ConcCatch(@, Answer(call[c].script, call[c].made))]
  /\ UNCHANGED <<now, trackedInfluencers, trendBriefs, timers, served>>
  /\ UNCHANGED analysisVars

ConcHttpFailureBackoff(c) ==
  /\ call[c].pc = "http"
  /\ Answer(call[c].script, call[c].made).t = "error"
  /\ ~NonRetryable(Answer(call[c].script, call[c].made))
  /\ ShouldBackoff(frame[frameOf(c)].attempt)
  /\ frame' = [frame EXCEPT ![frameOf(c)].lastError =
                 Answer(call[c].script, call[c].made)]
  /\ call' = [call EXCEPT ![c].pc = "backoff"]
  /\ UNCHANGED <<now, trackedInfluencers, trendBriefs, timers, served>>
  /\ UNCHANGED analysisVars

ConcHttpFailureFinal(c) ==
  /\ call[c].pc = "http"
  /\ Answer(call[c].script, call[c].made).t = "error"
  /\ ~NonRetryable(Answer(call[c].script, call[c].made))
  /\ ~ShouldBackoff(frame[frameOf(c)].attempt)
  /\ ConcLoopTop(c, frame[frameOf(c)].attempt + 1,
                 Answer(call[c].script, call[c].made))
  /\ UNCHANGED <<now, trackedInfluencers, trendBriefs, timers, served>>
  /\ UNCHANGED analysisVars

ConcBackoffDone(c) ==
  /\ call[c].pc = "backoff"
  /\ ConcLoopTop(c, frame[frameOf(c)].attempt + 1,
                 frame[frameOf(c)].lastError)
  /\ UNCHANGED <<now, trackedInfluencers, trendBriefs, timers, served>>
  /\ UNCHANGED analysisVars

\* makeOpenAIRequest and the catch block run for one call with nothing else
\* in flight, from the loop top with attempt = a and lastError = err
RECURSIVE AloneFrom(_, _, _)
AloneFrom(script, a, err) ==
  IF ~LoopContinues(a)
    THEN [made |-> a - 1,
          kind |-> IF err.t = "undefined" THEN "rejected" ELSE "mock"]
    ELSE IF Answer(script, a).t = "ok"
      THEN [made |-> a,
            kind |-> IF Answer(script, a).parsed THEN "ai" ELSE "mock"]
      ELSE IF NonRetryable(Answer(script, a))
        THEN [made |-> a, kind |-> "mock"]
        ELSE AloneFrom(script, a + 1, Answer(script, a))

Alone(script) ==
  IF MockMode
    THEN [made |-> 0, kind |-> "mock"]
    ELSE AloneFrom(script, 1, Undef)

InitConcurrent ==
  /\ apiKey \in BOOLEAN
  /\ \E env \in EnvMaxRetries : maxRetries = constructorMaxRetries(env)
  /\ pc = "idle"
  /\ req = NoRequest
  /\ attempt = 0
  /\ calls = 0
  /\ inflight = 0
  /\ log = <<>>
  /\ lastError = Undef
  /\ aiResponse = Undef
  /\ parseOut = NoParse
  /\ thrown = "none"
  /\ draws = NoDraws
  /\ outcome = Pending
  /\ reqBody = NoRequestBody
  /\ res = NoResponse
  /\ call \in [Callers -> {[pc |-> "idle", script |-> s, made |-> 0,
                            kind |-> "none", met |-> FALSE] :
                             s \in Scripts}]
  /\ frame = [c \in Callers |-> Frame(0, Undef)]
  /\ now = 10
  /\ trackedInfluencers = SeedTrackers
  /\ trendBriefs = SeedBriefs
  /\ timers = <<>>
  /\ served = NoServed

NextConcurrent ==
  \/ \E c \in Callers : ConcAnalyzeNoKey(c)
  \/ \E c \in Callers : ConcAnalyzeWithKey(c)
  \/ \E c \in Callers : ConcHttpSuccessParsed(c)
  \/ \E c \in Callers : ConcHttpSuccessUnparsed(c)
  \/ \E c \in Callers : ConcHttpAuthFailure(c)
  \/ \E c \in Callers : ConcHttpFailureBackoff(c)
  \/ \E c \in Callers : ConcHttpFailureFinal(c)
  \/ \E c \in Callers : ConcBackoffDone(c)

SpecConcurrent == InitConcurrent /\ [][NextConcurrent]_vars

(***************************************************************************)
(* parseAIResponse on its own: every response text of NormalizeInputs is   *)
(* handed to it, for both requests' brand and influencer.                  *)
(***************************************************************************)
InitNormalize ==
  /\ StoreInit
  /\ apiKey = TRUE
  /\ maxRetries = 3
  /\ pc = "parse"
  /\ req \in {[brand |-> x.brand, influencer |-> x.influencer,
               posts |-> <<[caption |-> "Morning coffee vibes"]>>] :
                x \in BrandsAndInfluencers}
  /\ attempt = 1
  /\ calls = 1
  /\ inflight = 0
  /\ log = <<Call(1)>>
  /\ lastError = Undef
  /\ aiResponse \in NormalizeInputs
  /\ parseOut = NoParse
  /\ thrown = "none"
  /\ draws = NoDraws
  /\ outcome = Pending
  /\ reqBody = NoRequestBody
  /\ res = NoResponse

ParseResponse ==
  /\ UNCHANGED storeVars
  /\ pc = "parse"
  /\ UNCHANGED <<reqBody, res>>
  /\ parseOut' = parseAIResponse(aiResponse, req.brand, req.influencer)
  /\ pc' = "parsed"
  /\ UNCHANGED <<apiKey, maxRetries, req, attempt, calls, inflight, log,
                 lastError, aiResponse, thrown, draws, outcome>>

NextNormalize == ParseResponse

SpecNormalize == InitNormalize /\ [][NextNormalize]_vars

(***************************************************************************)
(* The controller after `await aiService.analyzeInfluencerContent(...)`:   *)
(* formatAnalysisResponse and res.json, or next(error) and the error       *)
(* handler.                                                                *)
(***************************************************************************)
\* const { influencer, brand, platform = "instagram", limit = 10 } = req.body
bodyPlatform(b) ==
  IF b.platform.t = "undefined" THEN "instagram" ELSE JSToString(b.platform)
bodyLimit_five(b) == IF b.limit.t = "undefined" THEN NumOfInt(5) ELSE b.limit

bodyLimit(b) == IF b.limit.t = "undefined" THEN NumOfInt(10) ELSE b.limit

AnalyzeBody(influencer, brand, platform, limit) ==
  [influencer |-> influencer, brand |-> brand, platform |-> platform,
   limit |-> limit]

\* JSON.stringify writes NaN and Infinity as null
jsonNumber(x) == IF x.t \in {"NaN", "Infinity"} THEN Null ELSE x

jsonReport(report) ==
  [report EXCEPT
     !.data.summary.averageEngagement = jsonNumber(@),
     !.data.summary.brandMentionRate = jsonNumber(@),
     !.data.summary.sentimentDistribution =
        [k \in DOMAIN @ |-> jsonNumber(@[k])]]

\* errorHandler for an error without a name, code or response it knows (the
\* TypeErrors raised here): the default 500 answer
errorHandler(err) ==
  [status |-> 500, sent |-> TRUE,
   json |-> [success |-> FALSE, message |-> "Internal server error",
             status |-> 500]]

Respond ==
  /\ UNCHANGED storeVars
  /\ pc = "done"
  /\ res' =
       IF outcome.state = "rejected"
         THEN errorHandler("TypeError")
       ELSE IF formatThrows(req.posts, outcome.value)
         THEN errorHandler("TypeError")
       ELSE [status |-> 200, sent |-> TRUE,
             json |-> jsonReport(formatAnalysisResponse(
                        req.influencer, req.brand, bodyPlatform(reqBody),
                        req.posts, outcome.value))]
  /\ pc' = "responded"
  /\ UNCHANGED <<apiKey, maxRetries, req, attempt, calls, inflight, log,
                 lastError, aiResponse, parseOut, thrown, draws, outcome,
                 reqBody>>

(***************************************************************************)
(* POST /api/analyze: validateAnalysisRequest, the route handler and the   *)
(* controller up to its await.  A request body is a record of the four     *)
(* fields the chains read; a field that is not sent is undefined.          *)
(***************************************************************************)
\* toString of express-validator: null and undefined give ""
fieldText(v) ==
  IF v.t \in {"undefined", "null"} THEN "" ELSE JSToString(v)

RECURSIVE SkipWhiteSpaceBack(_, _)
SkipWhiteSpaceBack(s, j) ==
  IF j >= 1 /\ CharAt(s, j) \in WhiteSpace
    THEN SkipWhiteSpaceBack(s, j - 1) ELSE j

\* .trim()
trim(s) == SubSeq(s, SkipWhiteSpace(s, 1), SkipWhiteSpaceBack(s, Len(s)))

\* .isLength({ min, max })
isLength_nomax(s, min, max) == Len(s) >= min

isLength(s, min, max) == Len(s) >= min /\ Len(s) <= max

\* .matches(/^[a-zA-Z0-9._-]+$/)
UsernameChars ==
  {LowerCaseLetters[i] : i \in 1..26} \cup {UpperCaseLetters[i] : i \in 1..26}
  \cup {DecimalDigits[i] : i \in 1..10} \cup {".", "_", "-"}

matchesUsername(s) ==
  Len(s) >= 1 /\ \A i \in 1..Len(s) : CharAt(s, i) \in UsernameChars

\* .isInt({ min, max }): an optional sign, then 0 or digits without a
\* leading zero, and the value inside the range
isInt(s, min, max) ==
  LET signed == Len(s) >= 1 /\ CharAt(s, 1) \in {"+", "-"}
      digits == IF signed THEN SubSeq(s, 2, Len(s)) ELSE s
  IN  /\ Len(digits) >= 1
      /\ \A i \in 1..Len(digits) : DigitValue(CharAt(digits, i), 10) >= 0
      /\ digits = "0" \/ CharAt(digits, 1) # "0"
      /\ parseInt(Str(s)).v >= min
      /\ parseInt(Str(s)).v <= max

ValidationError(param, msg) == [param |-> param, msg |-> msg]

\* validationResult(req).array(): the errors of the four chains in order;
\* .optional() skips a field that is undefined
validationErrors(b) ==
  (IF isLength(trim(fieldText(b.influencer)), 1, MaxInfluencerLen) THEN <<>>
   ELSE <<ValidationError("influencer", "Invalid value")>>)
  \o (IF matchesUsername(trim(fieldText(b.influencer))) THEN <<>>
      ELSE <<ValidationError("influencer",
               "Influencer username must be 1-50 characters and contain only letters, numbers, dots, underscores, and hyphens")>>)
  \o (IF isLength(trim(fieldText(b.brand)), 1, MaxBrandLen) THEN <<>>
      ELSE <<ValidationError("brand", "Brand name must be 1-100 characters")>>)
  \o (IF b.platform.t = "undefined" \/ fieldText(b.platform) \in Platforms
        THEN <<>>
      ELSE <<ValidationError("platform",
               "Platform must be one of: instagram, youtube, tiktok, twitter")>>)
  \o (IF b.limit.t = "undefined" \/ isInt(fieldText(b.limit), 1, 50)
        THEN <<>>
      ELSE <<ValidationError("limit", "Limit must be between 1 and 50")>>)

\* the request as the controller reads it: influencer and brand trimmed by
\* the chains, the posts generated for Number.parseInt(limit)
AnalysisRequest(b, ds) ==
  LET influencer == trim(fieldText(b.influencer))
      brand == trim(fieldText(b.brand))
  IN  [brand |-> brand, influencer |-> influencer,
       posts |-> generateMockPosts(influencer, brand, bodyPlatform(b),
                                   parseInt(bodyLimit(b)).v, ds)]

\* the draws of the posts of a request: every mention mask, alternating
\* engagement, minute 0
RouteDrawSeqs(b) ==
  LET n == parseInt(bodyLimit(b)).v
  IN  {[i \in 1..n |-> [mention |-> i \in mask,
                        eng |-> EngagementEnd("mixed", i), minute |-> 0]] :
         mask \in MentionMasks(n)}

ValidInfluencers ==
  {Str("techguru"), Str(" fit.sarah_99 "), Str(Rep("a", MaxInfluencerLen))}
InvalidInfluencers ==
  {Undef, Null, Str(""), Str("   "), Str("tech guru"), Str("tech@guru"),
   Str(Rep("a", MaxInfluencerLen + 1))}
ValidBrands == {Str("nike"), Str("Acme Co"), Str(Rep("B", MaxBrandLen))}
InvalidBrands == {Undef, Str(""), Str("  "), Str(Rep("B", MaxBrandLen + 1))}
ValidPlatforms == {Undef, Str("instagram"), Str("youtube")}
InvalidPlatforms == {Str("facebook"), Str("Instagram"), Str(""), Null}
ValidLimits == {Undef, Num(1, 0), Num(2, 0), Str("3"), Num(5, 1)}
InvalidLimits ==
  {Num(0, 0), Num(51, 0), Num(-1, 0), Num(25, -1), Str("abc"), Str("07"),
   Str(""), Null, Num(1, 21)}

\* request bodies: a valid one with one field varied over valid and
\* invalid values, and two with several invalid fields
Bodies ==
  {AnalyzeBody(i, Str("nike"), Undef, Num(1, 0)) :
     i \in ValidInfluencers \cup InvalidInfluencers}
  \cup {AnalyzeBody(Str("techguru"), b, Undef, Num(1, 0)) :
          b \in ValidBrands \cup InvalidBrands}
  \cup {AnalyzeBody(Str("techguru"), Str("nike"), p, Num(1, 0)) :
          p \in ValidPlatforms \cup InvalidPlatforms}
  \cup {AnalyzeBody(Str("techguru"), Str("nike"), Undef, l) :
          l \in ValidLimits \cup InvalidLimits}
  \cup {AnalyzeBody(Undef, Undef, Undef, Undef),
        AnalyzeBody(Str(""), Str("nike"), Str("facebook"), Num(0, 0))}

\* validation failed: the handler answers 400 and returns
PostAnalyzeInvalid(b) ==
  /\ UNCHANGED storeVars
  /\ pc = "listen"
  /\ validationErrors(b) # <<>>
  /\ reqBody' = b
  /\ res' = [status |-> 400, sent |-> TRUE,
             json |-> [success |-> FALSE, message |-> "Validation failed",
                       errors |-> validationErrors(b), status |-> 400]]
  /\ pc' = "responded"
  /\ UNCHANGED <<apiKey, maxRetries, req, attempt, calls, inflight, log,
                 lastError, aiResponse, parseOut, thrown, draws, outcome>>

\* validation passed and no API key is set: the controller generates the
\* posts and analyzeInfluencerContent returns the mock result
PostAnalyzeNoKey(b, ds, d) ==
  /\ UNCHANGED storeVars
  /\ pc = "listen"
  /\ validationErrors(b) = <<>>
  /\ reqBody' = b
  /\ res' = res
  /\ StartNoKey(AnalysisRequest(b, ds), d)

\* validation passed and an API key is set: the controller generates the
\* posts and analyzeInfluencerContent issues its first HTTP attempt
PostAnalyzeWithKey(b, ds) ==
  /\ UNCHANGED storeVars
  /\ pc = "listen"
  /\ validationErrors(b) = <<>>
  /\ reqBody' = b
  /\ res' = res
  /\ StartWithKey(AnalysisRequest(b, ds))

\* the response is out and the server takes the next request; nothing of
\* the finished request is kept
NextRequest ==
  /\ UNCHANGED storeVars
  /\ pc = "responded"
  /\ pc' = "listen"
  /\ req' = NoRequest
  /\ attempt' = 0
  /\ calls' = 0
  /\ inflight' = 0
  /\ log' = <<>>
  /\ lastError' = Undef
  /\ aiResponse' = Undef
  /\ parseOut' = NoParse
  /\ thrown' = "none"
  /\ draws' = NoDraws
  /\ outcome' = Pending
  /\ reqBody' = NoRequestBody
  /\ res' = NoResponse
  /\ UNCHANGED <<apiKey, maxRetries>>

\* the environment of the server: OPENAI_MAX_RETRIES allows two attempts
RouteEnvMaxRetries == {Str("2")}

\* what the endpoint answers to the server: a JSON analysis, prose without
\* JSON, an answer without content; an authentication and a server error
RouteResponses ==
  {Text("", JsonBody(ValidMembers), ""),
   Text("I cannot analyze this content.", NoBody, ""),
   Null}
RouteErrors == {HttpError("AxiosError", 401), HttpError("AxiosError", 500)}

\* the Math.random() draws of the mock analysis of a request: each overall
\* sentiment, the first alignment score and the first quote template
RouteMockDraws == {d \in MockDraws : d.a = 0 /\ d.j = 0}

InitRoute ==
  /\ StoreInit
  /\ apiKey \in BOOLEAN
  /\ \E env \in RouteEnvMaxRetries : maxRetries = constructorMaxRetries(env)
  /\ pc = "listen"
  /\ req = NoRequest
  /\ attempt = 0
  /\ calls = 0
  /\ inflight = 0
  /\ log = <<>>
  /\ lastError = Undef
  /\ aiResponse = Undef
  /\ parseOut = NoParse
  /\ thrown = "none"
  /\ draws = NoDraws
  /\ outcome = Pending
  /\ reqBody = NoRequestBody
  /\ res = NoResponse

NextRoute ==
  \/ \E b \in Bodies : PostAnalyzeInvalid(b)
  \/ \E b \in Bodies : \E ds \in RouteDrawSeqs(b), d \in RouteMockDraws :
       PostAnalyzeNoKey(b, ds, d)
  \/ \E b \in Bodies : \E ds \in RouteDrawSeqs(b) : PostAnalyzeWithKey(b, ds)
  \/ \E resp \in RouteResponses : HttpSuccessParsed(resp)
  \/ \E resp \in RouteResponses : HttpSuccessUnparsed(resp)
  \/ \E err \in RouteErrors : HttpAuthFailure(err)
  \/ \E err \in RouteErrors : HttpFailureBackoff(err)
  \/ \E err \in RouteErrors : HttpFailureFinal(err)
  \/ BackoffDone
  \/ Respond
  \/ NextRequest

SpecRoute == InitRoute /\ [][NextRoute]_vars

(***************************************************************************)
(* formatAnalysisResponse on its own: every pair of a post list and an     *)
(* analysis result of the pools below is handed to it.                     *)
(***************************************************************************)
\* lists of 10 posts of which 3 and 7 mention the brand: the mention rates
\* 30% and 70% of generateInsightTags
RatePosts ==
  {generateMockPosts("techguru", "nike", "instagram", 10,
                     [i \in 1..10 |-> [mention |-> i <= k, eng |-> "low",
                                        minute |-> 0]]) : k \in {3, 7}}

AggregatePosts ==
  UNION {{generateMockPosts("techguru", "nike", "instagram", n, ds) :
            ds \in PostDrawSeqs(n)} : n \in 0..MaxPosts}
  \cup RatePosts


AnalysisItem(i, sentiment) ==
  Obj([postIndex |-> NumOfInt(i), sentiment |-> Str(sentiment),
       aiComment |-> Str("Post " \o IntToStr(i)),
       brandMention |-> Bool(FALSE)])

TagScores == {0, 40, 41, 59, 60, 79, 80, 100}
KeywordLists ==
  {<<>>, <<Str("Authentic"), Str("fitness")>>,
   <<Str("lifestyle"), Str("Community")>>,
   <<Str("genuine"), Str("followers"), Str("travel")>>}
RiskLists == {<<>>, <<Str("Audience overlap")>>}

\* analysis results over every combination that the tag rules tell apart
TagResults ==
  {Obj([ValidMembers EXCEPT
          !.sentimentScore = NumOfInt(score),
          !.brandAlignment = alignment,
          !.topKeywords = Arr(keywords),
          !.riskFactors = Arr(risks)]) :
     score \in TagScores, alignment \in ValidAlignments,
     keywords \in KeywordLists, risks \in RiskLists}

\* analysis results over every contentAnalysis of up to MaxAnalysisLen
\* entries, and over a missing one
DistributionResults ==
  UNION {{Obj([ValidMembers EXCEPT !.contentAnalysis =
                 Arr([i \in 1..n |-> AnalysisItem(i, f[i])])]) :
            f \in [1..n -> {Sentiments[k] : k \in 1..3}]} :
           n \in 0..MaxAnalysisLen}
  \cup {Obj(With(ValidMembers, "contentAnalysis", Null)),
        Obj(Without(ValidMembers, "contentAnalysis"))}

\* an analysis result whose first entry has the empty string as aiComment,
\* which validateContentAnalysis lets through
EmptyCommentResults ==
  {Obj([ValidMembers EXCEPT !.contentAnalysis =
          Arr(<<Obj([postIndex |-> NumOfInt(1), sentiment |-> Str("Positive"),
                     aiComment |-> Str(""), brandMention |-> Bool(TRUE)]),
                AnalysisItem(2, "Negative")>>)])}

InitAggregate ==
  /\ StoreInit
  /\ apiKey = TRUE
  /\ maxRetries = 3
  /\ pc = "done"
  /\ reqBody = AnalyzeBody(Str("techguru"), Str("nike"), Undef, Undef)
  /\ \E posts \in AggregatePosts :
       /\ req = [brand |-> "nike", influencer |-> "techguru", posts |-> posts]
       /\ \/ /\ draws = NoDraws
             /\ \E a \in TagResults \cup DistributionResults
                         \cup EmptyCommentResults :
                  outcome = [state |-> "resolved", source |-> "ai",
                             value |-> a]
          \/ /\ draws \in MockDraws
             /\ outcome = [state |-> "resolved", source |-> "mock",
                           value |-> generateMockResponse(
                                       "nike", "techguru", posts, draws)]
  /\ attempt = 1
  /\ calls = 1
  /\ inflight = 0
  /\ log = <<Call(1)>>
  /\ lastError = Undef
  /\ aiResponse = Undef
  /\ parseOut = NoParse
  /\ thrown = "none"
  /\ res = NoResponse

NextAggregate == Respond

SpecAggregate == InitAggregate /\ [][NextAggregate]_vars

(***************************************************************************)
(* routes/tracker.js: POST /api/tracker/add, PUT /api/tracker/:id/toggle,  *)
(* DELETE /api/tracker/:id and POST /api/tracker/sync on the array         *)
(* trackedInfluencers.  Each handler runs to its response in one step;     *)
(* the clock moves between requests, and two requests can be served at     *)
(* the same Date.now().  `served` keeps the request answered last, the     *)
(* status sent and the array as it was before the handler ran.             *)
(***************************************************************************)
\* .matches(/^@?[a-zA-Z0-9._-]+$/)
matchesHandle(s) ==
  IF Len(s) >= 1 /\ CharAt(s, 1) = "@"
    THEN matchesUsername(SubSeq(s, 2, Len(s)))
    ELSE matchesUsername(s)

TrackerPlatforms == {"youtube", "instagram", "linkedin"}
TrackerCategories == {"influencer", "competitor"}

\* the validation chains of POST /add
trackerErrors(b) ==
  (IF isLength(trim(fieldText(b.handle)), 1, MaxInfluencerLen) THEN <<>>
   ELSE <<ValidationError("handle", "Invalid value")>>)
  \o (IF matchesHandle(trim(fieldText(b.handle))) THEN <<>>
      ELSE <<ValidationError("handle",
               "Handle must be valid social media username")>>)
  \o (IF fieldText(b.platform) \in TrackerPlatforms THEN <<>>
      ELSE <<ValidationError("platform",
               "Platform must be youtube, instagram, or linkedin")>>)
  \o (IF fieldText(b.category) \in TrackerCategories THEN <<>>
      ELSE <<ValidationError("category",
               "Category must be influencer or competitor")>>)
  \o (IF b.brand.t = "undefined"
         \/ isLength(trim(fieldText(b.brand)), 0, MaxBrandLen)
        THEN <<>>
      ELSE <<ValidationError("brand",
               "Brand name must be less than 100 characters")>>)

\* trackedInfluencers.find(...) of POST /add: 0 when nothing is found
RECURSIVE findTracked(_, _, _, _)
findTracked(list, handle, platform, i) ==
  IF i > Len(list) THEN 0
  ELSE IF /\ toLowerCase(list[i].handle) = toLowerCase(handle)
          /\ list[i].platform = platform
    THEN i
    ELSE findTracked(list, handle, platform, i + 1)

\* handle.startsWith("@") ? handle : "@" + handle
withAt(handle) ==
  IF Len(handle) >= 1 /\ CharAt(handle, 1) = "@"
    THEN handle ELSE "@" \o handle

\* trackedInfluencers.find / findIndex by id: 0 when nothing is found
RECURSIVE findIndex(_, _, _)
findIndex(list, id, i) ==
  IF i > Len(list) THEN 0
  ELSE IF list[i].id = id THEN i
  ELSE findIndex(list, id, i + 1)

\* list.splice(i, 1)
splice_toEnd(list, i) == SubSeq(list, 1, i - 1)

splice(list, i) == SubSeq(list, 1, i - 1) \o SubSeq(list, i + 1, Len(list))

\* item.isActive = !item.isActive; item.lastUpdate = new Date()...
toggled(list, i, at) ==
  [list EXCEPT ![i].isActive = ~@, ![i].lastUpdate = Num(at, 0)]

Served(op, arg, status, data) ==
  [op |-> op, n |-> served.n + 1, arg |-> arg, status |-> status,
   data |-> data, before |-> trackedInfluencers,
   briefsBefore |-> trendBriefs]

\* the next request arrives dt milliseconds after the last one, the
\* process still running
Arrives(dt) ==
  /\ served.op # "shutdown"
  /\ served.n < MaxRequests
  /\ now' = now + dt

TrackerBody(handle, platform, category, brand) ==
  [handle |-> handle, platform |-> platform, category |-> category,
   brand |-> brand]

TrackerBodies ==
  {TrackerBody(Str("@techguru"), Str("youtube"), Str("influencer"), Undef),
   TrackerBody(Str("techguru"), Str("youtube"), Str("competitor"), Undef),
   TrackerBody(Str("@TechGuru"), Str("youtube"), Str("influencer"), Undef),
   TrackerBody(Str("@techguru"), Str("linkedin"), Str("influencer"),
               Str("Acme")),
   TrackerBody(Str(" newbie "), Str("instagram"), Str("influencer"), Undef),
   TrackerBody(Str("@Newbie"), Str("instagram"), Str("influencer"), Undef),
   TrackerBody(Str("two words"), Str("youtube"), Str("influencer"), Undef),
   TrackerBody(Str("newbie"), Str("tiktok"), Str("partner"), Undef)}

\* POST /add with a body that fails validation
TrackerAddInvalid(b, dt) ==
  /\ Arrives(dt)
  /\ trackerErrors(b) # <<>>
  /\ served' = Served("add", b, 400, Undef)
  /\ UNCHANGED <<call, frame, trackedInfluencers, trendBriefs, timers>>
  /\ UNCHANGED analysisVars

\* POST /add for an account the find call finds
TrackerAddExisting(b, dt) ==
  /\ Arrives(dt)
  /\ trackerErrors(b) = <<>>
  /\ findTracked(trackedInfluencers, trim(fieldText(b.handle)),
                 b.platform.s, 1) # 0
  /\ served' = Served("add", b, 409,
                      trackedInfluencers[
                        findTracked(trackedInfluencers,
                                    trim(fieldText(b.handle)),
                                    b.platform.s, 1)])
  /\ UNCHANGED <<call, frame, trackedInfluencers, trendBriefs, timers>>
  /\ UNCHANGED analysisVars

newTracker(b) ==
  Tracker(IntToStr(now'), withAt(trim(fieldText(b.handle))), b.platform.s,
          b.category.s, IF Truthy(b.brand) THEN Str(trim(fieldText(b.brand)))
                        ELSE Null,
          Num(now', 0), Str("Just added"))

\* POST /add for an account the find call does not find
TrackerAddNew(b, dt) ==
  /\ Arrives(dt)
  /\ trackerErrors(b) = <<>>
  /\ findTracked(trackedInfluencers, trim(fieldText(b.handle)),
                 b.platform.s, 1) = 0
  /\ trackedInfluencers' = Append(trackedInfluencers, newTracker(b))
  /\ served' = Served("add", b, 201, newTracker(b))
  /\ UNCHANGED <<call, frame, trendBriefs, timers>>
  /\ UNCHANGED analysisVars

\* PUT /:id/toggle with an id that no entry carries
TrackerToggleUnknown(id, dt) ==
  /\ Arrives(dt)
  /\ findIndex(trackedInfluencers, id, 1) = 0
  /\ served' = Served("toggle", id, 404, Undef)
  /\ UNCHANGED <<call, frame, trackedInfluencers, trendBriefs, timers>>
  /\ UNCHANGED analysisVars

\* PUT /:id/toggle: the entry that find returns is toggled
TrackerToggle(id, dt) ==
  /\ Arrives(dt)
  /\ findIndex(trackedInfluencers, id, 1) # 0
  /\ trackedInfluencers' =
       toggled(trackedInfluencers, findIndex(trackedInfluencers, id, 1),
               now')
  /\ served' = Served("toggle", id, 200,
                      trackedInfluencers'[
                        findIndex(trackedInfluencers, id, 1)])
  /\ UNCHANGED <<call, frame, trendBriefs, timers>>
  /\ UNCHANGED analysisVars

\* DELETE /:id with an id that no entry carries
TrackerDeleteUnknown(id, dt) ==
  /\ Arrives(dt)
  /\ findIndex(trackedInfluencers, id, 1) = 0
  /\ served' = Served("delete", id, 404, Undef)
  /\ UNCHANGED <<call, frame, trackedInfluencers, trendBriefs, timers>>
  /\ UNCHANGED analysisVars

\* DELETE /:id: the entry at the index that findIndex returns is removed
TrackerDelete(id, dt) ==
  /\ Arrives(dt)
  /\ findIndex(trackedInfluencers, id, 1) # 0
  /\ trackedInfluencers' =
       splice(trackedInfluencers, findIndex(trackedInfluencers, id, 1))
  /\ served' = Served("delete", id, 200,
                      trackedInfluencers[
                        findIndex(trackedInfluencers, id, 1)])
  /\ UNCHANGED <<call, frame, trendBriefs, timers>>
  /\ UNCHANGED analysisVars

\* the three Math.random() draws of a synced tracker, at the upper end
SyncDraws ==
  {[followers |-> 149999, engagementRate |-> 60, recentPosts |-> 10]}

\* POST /sync: every active tracker gets new figures
TrackerSync(d, dt) ==
  /\ Arrives(dt)
  /\ trackedInfluencers' =
       [i \in 1..Len(trackedInfluencers) |->
          IF trackedInfluencers[i].isActive
            THEN [trackedInfluencers[i] EXCEPT
                    !.followers = d.followers,
                    !.engagementRate = d.engagementRate,
                    !.recentPosts = d.recentPosts,
                    !.lastUpdate = Num(now', 0)]
            ELSE trackedInfluencers[i]]
  /\ served' = Served("sync", Undef, 200, Undef)
  /\ UNCHANGED <<call, frame, trendBriefs, timers>>
  /\ UNCHANGED analysisVars

\* ids a client can send: those in the array and one that is not
TrackerIds ==
  {trackedInfluencers[i].id : i \in 1..Len(trackedInfluencers)} \cup {"0"}

InitStores ==
  /\ apiKey = FALSE
  /\ maxRetries = 3
  /\ pc = "idle"
  /\ req = NoRequest
  /\ attempt = 0
  /\ calls = 0
  /\ inflight = 0
  /\ log = <<>>
  /\ lastError = Undef
  /\ aiResponse = Undef
  /\ parseOut = NoParse
  /\ thrown = "none"
  /\ draws = NoDraws
  /\ outcome = Pending
  /\ reqBody = NoRequestBody
  /\ res = NoResponse
  /\ StoreInit

Elapsed == {0, 1}

NextTracker ==
  \/ \E b \in TrackerBodies, dt \in Elapsed : TrackerAddInvalid(b, dt)
  \/ \E b \in TrackerBodies, dt \in Elapsed : TrackerAddExisting(b, dt)
  \/ \E b \in TrackerBodies, dt \in Elapsed : TrackerAddNew(b, dt)
  \/ \E id \in TrackerIds, dt \in Elapsed : TrackerToggleUnknown(id, dt)
  \/ \E id \in TrackerIds, dt \in Elapsed : TrackerToggle(id, dt)
  \/ \E id \in TrackerIds, dt \in Elapsed : TrackerDeleteUnknown(id, dt)
  \/ \E id \in TrackerIds, dt \in Elapsed : TrackerDelete(id, dt)
  \/ \E d \in SyncDraws, dt \in Elapsed : TrackerSync(d, dt)

SpecTracker == InitStores /\ [][NextTracker]_vars

(***************************************************************************)
(* routes/briefs.js: POST /api/briefs/generate, the timer it sets, and     *)
(* POST /api/briefs/:id/export on the array trendBriefs.  A timer is kept  *)
(* with what its callback closes over; timers with the same delay fire in  *)
(* the order they were set, and none fires in the millisecond it was set.  *)
(***************************************************************************)
\* a template literal cannot convert the value: an object parsed from JSON
\* with a toString member of its own (never callable), whose inherited
\* valueOf returns the object
ToStringThrows(v) == v.t = "object" /\ "toString" \in DOMAIN v.o

\* const { niche = "general", timeframe = "48h" } = req.body
OrDefault(v, d) == IF v.t = "undefined" THEN d ELSE v

BriefBody(niche, timeframe) == [niche |-> niche, timeframe |-> timeframe]

BriefBodies ==
  {BriefBody(Undef, Undef),
   BriefBody(Str("tech"), Obj([toString |-> Num(1, 0)])),
   BriefBody(Null, Str("24h"))}

\* a timer with what its callback closes over: the brief (ref, id) and the
\* value it puts into a template literal (timeframe, or format)
Timer(kind, ref, id, text, at) ==
  [kind |-> kind, ref |-> ref, id |-> id, text |-> text, at |-> at]

\* POST /generate: niche.charAt is not a function (or niche is null), the
\* handler's catch block answers 500 before a brief exists
BriefGenerateThrows(b, dt) ==
  /\ Arrives(dt)
  /\ OrDefault(b.niche, Str("general")).t # "string"
  /\ served' = Served("generate", b, 500, Undef)
  /\ UNCHANGED <<call, frame, trackedInfluencers, trendBriefs, timers>>
  /\ UNCHANGED analysisVars

newBrief(b, at) ==
  Brief(Len(trendBriefs) + 1, IntToStr(at),
        OrDefault(b.niche, Str("general")).s, "pending", Num(at, 0), Null)

\* POST /generate: the pending brief is put first, its timer is set, 202
BriefGenerate(b, dt) ==
  /\ Arrives(dt)
  /\ OrDefault(b.niche, Str("general")).t = "string"
  /\ trendBriefs' = <<newBrief(b, now')>> \o trendBriefs
  /\ timers' = Append(timers,
                      Timer("generate", Len(trendBriefs) + 1,
                            IntToStr(now'),
                            OrDefault(b.timeframe, Str("48h")), now'))
  /\ served' = Served("generate", b, 202, newBrief(b, now'))
  /\ UNCHANGED <<call, frame, trackedInfluencers>>
  /\ UNCHANGED analysisVars

\* trendBriefs.find((b) => b.id === id): 0 when nothing is found
findBrief(list, id) == findIndex(list, id, 1)

\* the brief the callback of timer t writes to: the object newBrief it
\* closes over
timerTarget(list, t) == CHOOSE i \in 1..Len(list) : list[i].ref = t.ref

\* the timer at index i is due: no timer of its kind was set before it
Due(i, at) ==
  /\ served.op # "shutdown"
  /\ i \in 1..Len(timers)
  /\ at > timers[i].at
  /\ \A j \in 1..(i - 1) : timers[j].kind # timers[i].kind

Fired(op, ref) == [Served(op, ref, 0, Undef) EXCEPT !.n = served.n]

\* the generation timer fires and the texts are written
BriefTimerDelivers(i, dt) ==
  /\ Due(i, now + dt)
  /\ now' = now + dt
  /\ timers[i].kind = "generate"
  /\ ~ToStringThrows(timers[i].text)
  /\ trendBriefs' =
       [trendBriefs EXCEPT ![timerTarget(trendBriefs, timers[i])] =
          [@ EXCEPT !.content = "generated", !.status = "delivered",
                    !.deliveredAt = Num(now', 0)]]
  /\ timers' = splice(timers, i)
  /\ served' = Fired("timer", timers[i].ref)
  /\ UNCHANGED <<call, frame, trackedInfluencers>>
  /\ UNCHANGED analysisVars

\* the generation timer fires and writing the summary throws: the
\* callback's catch block marks the brief
BriefTimerFails(i, dt) ==
  /\ Due(i, now + dt)
  /\ now' = now + dt
  /\ timers[i].kind = "generate"
  /\ ToStringThrows(timers[i].text)
  /\ trendBriefs' =
       [trendBriefs EXCEPT ![timerTarget(trendBriefs, timers[i])] =
          [@ EXCEPT !.status = "failed"]]
  /\ timers' = splice(timers, i)
  /\ served' = Fired("timer", timers[i].ref)
  /\ UNCHANGED <<call, frame, trackedInfluencers>>
  /\ UNCHANGED analysisVars

\* POST /:id/export with an id that no brief carries
BriefExportUnknown(id, dt) ==
  /\ Arrives(dt)
  /\ findBrief(trendBriefs, id) = 0
  /\ served' = Served("export", id, 404, Undef)
  /\ UNCHANGED <<call, frame, trackedInfluencers, trendBriefs, timers>>
  /\ UNCHANGED analysisVars

\* if (brief.status !== "delivered")
exportable_any(brief) == TRUE

exportable(brief) == brief.status = "delivered"

\* POST /:id/export: the brief that find returns is not delivered
BriefExportRefused(id, dt) ==
  /\ Arrives(dt)
  /\ findBrief(trendBriefs, id) # 0
  /\ ~exportable(trendBriefs[findBrief(trendBriefs, id)])
  /\ served' = Served("export", id, 400, Undef)
  /\ UNCHANGED <<call, frame, trackedInfluencers, trendBriefs, timers>>
  /\ UNCHANGED analysisVars

\* const { format = "pdf" } = req.body
ExportFormats == {Undef, Obj([toString |-> Num(1, 0)])}

\* POST /:id/export: the export record is made and its timer set
BriefExport(id, format, dt) ==
  /\ Arrives(dt)
  /\ findBrief(trendBriefs, id) # 0
  /\ exportable(trendBriefs[findBrief(trendBriefs, id)])
  /\ timers' = Append(timers,
                      Timer("export", 0, id, OrDefault(format, Str("pdf")),
                            now'))
  /\ served' = Served("export", id, 200,
                      [briefId |-> id, status |-> "processing"])
  /\ UNCHANGED <<call, frame, trackedInfluencers, trendBriefs>>
  /\ UNCHANGED analysisVars

\* the export timer fires: only the export record, which no one holds any
\* more, is written
ExportTimerFires(i, dt) ==
  /\ Due(i, now + dt)
  /\ now' = now + dt
  /\ timers[i].kind = "export"
  /\ ~ToStringThrows(timers[i].text)
  /\ timers' = splice(timers, i)
  /\ served' = Fired("exported", 0)
  /\ UNCHANGED <<call, frame, trackedInfluencers, trendBriefs>>
  /\ UNCHANGED analysisVars

\* the export timer fires and building downloadUrl throws outside any try:
\* the uncaughtException handler shuts the process down, and the timers
\* still set never fire
ExportTimerThrows(i, dt) ==
  /\ Due(i, now + dt)
  /\ now' = now + dt
  /\ timers[i].kind = "export"
  /\ ToStringThrows(timers[i].text)
  /\ timers' = splice(timers, i)
  /\ served' = Fired("shutdown", 0)
  /\ UNCHANGED <<call, frame, trackedInfluencers, trendBriefs>>
  /\ UNCHANGED analysisVars

BriefIds ==
  {trendBriefs[i].id : i \in 1..Len(trendBriefs)} \cup {"0"}

NextBriefs ==
  \/ \E b \in BriefBodies, dt \in Elapsed : BriefGenerateThrows(b, dt)
  \/ \E b \in BriefBodies, dt \in Elapsed : BriefGenerate(b, dt)
  \/ \E i \in 1..Len(timers), dt \in Elapsed : BriefTimerDelivers(i, dt)
  \/ \E i \in 1..Len(timers), dt \in Elapsed : BriefTimerFails(i, dt)
  \/ \E id \in BriefIds, dt \in Elapsed : BriefExportUnknown(id, dt)
  \/ \E id \in BriefIds, dt \in Elapsed : BriefExportRefused(id, dt)
  \/ \E id \in BriefIds, f \in ExportFormats, dt \in Elapsed :
       BriefExport(id, f, dt)
  \/ \E i \in 1..Len(timers), dt \in Elapsed : ExportTimerFires(i, dt)
  \/ \E i \in 1..Len(timers), dt \in Elapsed : ExportTimerThrows(i, dt)

SpecBriefs == InitStores /\ [][NextBriefs]_vars

(***************************************************************************)
(* Properties.                                                             *)
(***************************************************************************)
\* the object JSON.parse gave parseAIResponse for the text in aiResponse
ParsedInput == JSONparse(aiResponse, JsonMatch(aiResponse).text).v

\* parseAIResponse has returned a result in this state
Returned == pc = "parsed" /\ ~parseOut.threw
Result == parseOut.value.o

\* the number x is an integer / is below 0 / is above 100
IsInteger(x) == x.t = "number" /\ x.e >= 0
Below0(x) == x.t = "number" /\ x.m < 0
Above100(x) ==
  /\ x.t = "number"
  /\ x.m > 0
  /\ \/ x.e >= 3
     \/ x.e >= 0 /\ x.m * Pow10(x.e) > 100
     \/ x.e < 0 /\ x.m > 100 * Pow10(-x.e)

SentimentEnum == {"Positive", "Neutral", "Negative"}
AlignmentEnum == {"Highly Aligned", "Aligned", "Partially Aligned",
                  "Not Aligned"}
InEnum(x, enum) == x.t = "string" /\ x.s \in enum

\* C1: analyzeInfluencerContent always resolves and never rejects, and
\* whenever makeOpenAIRequest or parseAIResponse threw, the value it
\* resolves with is the one generateMockResponse produced.
C1_AlwaysResolves ==
  pc = "done" =>
    /\ outcome.state = "resolved"
    /\ outcome.value.t = "object"
    /\ thrown # "none" =>
         /\ outcome.source = "mock"
         /\ outcome.value = generateMockResponse(req.brand, req.influencer,
                                                 req.posts, draws)

\* the text holds a "{" with a "}" somewhere after it
BracePairFound(r) ==
  LET s == RawSkeleton(r)
  IN  \E i \in 1..Len(s) : \E j \in (i + 1)..Len(s) :
        CharAt(s, i) = "{" /\ CharAt(s, j) = "}"

\* C2: parseAIResponse throws only when the raw text holds no substring
\* matching the greedy outermost-braces pattern; whenever such a substring
\* is found it returns a result.
C2_ThrowsOnlyWithoutMatch ==
  (pc = "parsed" /\ aiResponse.t = "text") =>
    (parseOut.threw <=> ~BracePairFound(aiResponse))

IsolationProbes == {Null, Num(7, 0), Str("abc"), Arr(<<Str("k1")>>),
                    Arr(<<Null>>), Obj(EmptyMembers)}

\* C3: field isolation: replacing one top-level field of the parsed object
\* changes at most the same-named field of the result, and no value of a
\* field (a malformed contentAnalysis element included) makes the
\* normalization fail.
C3_FieldIsolation ==
  (pc = "parsed" /\ aiResponse.t = "text" /\ JsonMatch(aiResponse).found
     /\ JSONparse(aiResponse, JsonMatch(aiResponse).text).ok) =>
    /\ ~parseOut.threw
    /\ \A f \in FieldNames, v \in IsolationProbes :
         LET other == parseAIResponse(
                        Text("", JsonBody(With(ParsedInput.o, f, v)), ""),
                        req.brand, req.influencer)
         IN  /\ ~other.threw
             /\ \A g \in FieldNames \ {f} : other.value.o[g] = Result[g]

\* C4: in every returned result overallSentiment and every
\* contentAnalysis[].sentiment are Positive, Neutral or Negative and
\* brandAlignment is one of the four alignments; an input value of the
\* allowed set is kept, any other becomes "Neutral" / "Partially Aligned".
C4_EnumsNormalized ==
  Returned =>
    LET inS == Get(ParsedInput, "overallSentiment")
        inA == Get(ParsedInput, "brandAlignment")
        inC == Get(ParsedInput, "contentAnalysis")
    IN  /\ InEnum(Result.overallSentiment, SentimentEnum)
        /\ InEnum(Result.brandAlignment, AlignmentEnum)
        /\ Result.overallSentiment =
             IF InEnum(inS, SentimentEnum) THEN inS ELSE Str("Neutral")
        /\ Result.brandAlignment =
             IF InEnum(inA, AlignmentEnum) THEN inA
             ELSE Str("Partially Aligned")
        /\ \A i \in 1..Len(Result.contentAnalysis.a) :
             LET inI == Get(inC.a[i], "sentiment")
                 outI == Result.contentAnalysis.a[i].o.sentiment
             IN  /\ InEnum(outI, SentimentEnum)
                 /\ outI = IF InEnum(inI, SentimentEnum) THEN inI
                           ELSE Str("Neutral")

C4_Witness ==
  /\ Returned
  /\ Get(ParsedInput, "overallSentiment") = Str("Mixed")
  /\ Get(ParsedInput, "brandAlignment") = Str("Aligned")
  /\ Result.overallSentiment = Str("Neutral")
  /\ Result.brandAlignment = Str("Aligned")

\* C5: validateScore returns an integer in [0,100] for every input: a
\* number below 0 gives 0, a number above 100 gives 100, an (integer)
\* number in range gives itself, an input that does not parse as an
\* integer gives 50.
C5_ScoreContract ==
  Returned =>
    LET in == Get(ParsedInput, "sentimentScore")
        out == Result.sentimentScore
    IN  /\ IsInteger(out) /\ ~Below0(out) /\ ~Above100(out)
        /\ Below0(in) => out = Num(0, 0)
        /\ Above100(in) => out = Num(1, 2)
        /\ (IsInteger(in) /\ ~Below0(in) /\ ~Above100(in)) => out = in
        /\ parseInt(in).nan => out = Num(5, 1)

\* C6: in every returned result aiQuote is a string of at most 150
\* characters, for every influencer up to 50 and brand up to 100
\* characters: a longer input quote becomes its first 147 characters and
\* "...", a quote of 1..150 characters is kept, a non-string or empty quote
\* becomes the templated default naming influencer and brand.
C6_QuoteContract ==
  Returned =>
    LET in == Get(ParsedInput, "aiQuote")
        out == Result.aiQuote
    IN  /\ out.t = "string"
        /\ Len(out.s) <= 150
        /\ (in.t = "string" /\ Len(in.s) > 150) =>
             out.s = SubSeq(in.s, 1, 147) \o "..."
        /\ (in.t = "string" /\ Len(in.s) \in 1..150) => out = in
        /\ (in.t # "string" \/ in.s = "") =>
             out.s = req.influencer \o " shows moderate engagement with "
                     \o req.brand \o " content."

\* C7: every element of the returned contentAnalysis is well-typed whatever
\* the array held: postIndex an integer >= 1 (1 when missing), sentiment in
\* the enum, aiComment a string ("Standard engagement post" when the input
\* is not a string), brandMention a boolean; a non-array contentAnalysis
\* gives the empty array.
C7_ItemsWellTyped ==
  Returned =>
    LET in == Get(ParsedInput, "contentAnalysis")
        out == Result.contentAnalysis
    IN  /\ out.t = "array"
        /\ in.t # "array" => out.a = <<>>
        /\ in.t = "array" => Len(out.a) = Len(in.a)
        /\ \A i \in 1..Len(out.a) :
             LET e == out.a[i].o
                 inE == in.a[i]
             IN  /\ IsInteger(e.postIndex) /\ e.postIndex.m >= 1
                 /\ Get(inE, "postIndex") = Undef => e.postIndex = Num(1, 0)
                 /\ InEnum(e.sentiment, SentimentEnum)
                 /\ e.aiComment.t = "string"
                 /\ Get(inE, "aiComment").t # "string" =>
                      e.aiComment = Str("Standard engagement post")
                 /\ e.brandMention.t = "boolean"

ArrayFields == {"topKeywords", "recommendations", "riskFactors",
                "opportunities"}
ArrayCap(f) ==
  IF f \in {"topKeywords", "recommendations"} THEN 5 ELSE 3
ArrayFallback(f) ==
  CASE f = "topKeywords" ->
         <<Str("engagement"), Str("content"), Str("brand")>>
    [] f = "recommendations" -> <<Str("Monitor engagement trends")>>
    [] f = "riskFactors" -> <<>>
    [] f = "opportunities" -> <<Str("Explore collaboration opportunities")>>

\* C8: in every returned result topKeywords and recommendations have at
\* most 5 elements, riskFactors and opportunities at most 3, every element
\* is a non-empty string, and a non-array input gives the field's fixed
\* fallback array.
C8_ArrayCaps ==
  Returned =>
    \A f \in ArrayFields :
      /\ Result[f].t = "array"
      /\ Len(Result[f].a) <= ArrayCap(f)
      /\ \A i \in 1..Len(Result[f].a) :
           Result[f].a[i].t = "string" /\ Result[f].a[i].s # ""
      /\ Get(ParsedInput, f).t # "array" => Result[f].a = ArrayFallback(f)

C8_Witness ==
  /\ Returned
  /\ Get(ParsedInput, "topKeywords").t = "array"
  /\ Len(Get(ParsedInput, "topKeywords").a) > 5
  /\ Get(ParsedInput, "topKeywords").a[2] = Null
  /\ Len(Result.topKeywords.a) = 4
  /\ Result.riskFactors.a = <<>>
  /\ Get(ParsedInput, "riskFactors") = Undef

\* the gateway events of N attempts that all fail with a retryable error
RECURSIVE RetrySchedule(_)
RetrySchedule(n) ==
  IF n <= 1 THEN <<Call(1)>>
  ELSE RetrySchedule(n - 1) \o <<Sleep(Pow2(n - 1) * 1000), Call(n)>>

\* makeOpenAIRequest threw after every attempt failed with a retryable error
RetriesExhausted ==
  /\ pc = "done"
  /\ thrown = "makeOpenAIRequest"
  /\ lastError.t = "error"
  /\ lastError.status \notin {401, 403}

\* C9: with maxRetries = N >= 1 and every attempt failing with a retryable
\* error, makeOpenAIRequest makes exactly N HTTP calls one after another,
\* sleeps 2^k seconds after failed attempt k for k = 1..N-1 (2s then 4s for
\* N = 3), does not sleep after attempt N, and then throws.
C9_RetrySchedule ==
  /\ inflight \in {0, 1}
  /\ pc = "backoff" => inflight = 0
  /\ RetriesExhausted =>
       /\ maxRetries >= 1
       /\ calls = maxRetries
       /\ log = RetrySchedule(maxRetries)
       /\ log[Len(log)].ev = "call"
       /\ maxRetries = 3 =>
            log = <<Call(1), Sleep(2000), Call(2), Sleep(4000), Call(3)>>

C9_Witness ==
  /\ RetriesExhausted
  /\ maxRetries = 3
  /\ calls = 3
  /\ lastError.status = 500
  /\ log = <<Call(1), Sleep(2000), Call(2), Sleep(4000), Call(3)>>

\* the request ended on an attempt that failed with 401 or 403
AuthFailed ==
  /\ pc = "done"
  /\ lastError.t = "error"
  /\ lastError.status \in {401, 403}

\* C10: an attempt failing with 401 or 403 makes makeOpenAIRequest throw at
\* once, with no further HTTP call and no backoff sleep after that attempt
\* (a 401 on the first attempt: exactly 1 call whatever maxRetries is), and
\* the caller still returns the synthesizer's result.
C10_AuthFailsFast ==
  AuthFailed =>
    /\ thrown = "makeOpenAIRequest"
    /\ calls = attempt
    /\ inflight = 0
    /\ log = RetrySchedule(attempt)
    /\ attempt = 1 => calls = 1 /\ log = <<Call(1)>>
    /\ outcome.state = "resolved"
    /\ outcome.source = "mock"
    /\ outcome.value = generateMockResponse(req.brand, req.influencer,
                                            req.posts, draws)

C10_Witness ==
  /\ AuthFailed
  /\ lastError.status = 401
  /\ maxRetries = 3
  /\ calls = 1
  /\ outcome.source = "mock"

\* C11: with no API key configured, every call of analyzeInfluencerContent,
\* over any sequence of requests, returns the result of generateMockResponse
\* for its own brand, influencer and posts, and the gateway is never
\* entered: no HTTP call is issued, none is outstanding, nothing is slept.
C11_NoKeyNoGateway ==
  ~apiKey =>
    /\ pc \in {"idle", "done"}
    /\ calls = 0
    /\ inflight = 0
    /\ log = <<>>
    /\ attempt = 0
    /\ thrown = "none"
    /\ pc = "done" =>
         /\ outcome.state = "resolved"
         /\ outcome.source = "mock"
         /\ outcome.value = generateMockResponse(req.brand, req.influencer,
                                                 req.posts, draws)

C11_Witness ==
  /\ ~apiKey
  /\ pc = "done"
  /\ Len(req.posts) = MaxPosts
  /\ outcome.source = "mock"
  /\ calls = 0

\* formatAnalysisResponse returned and its report was sent
Reported == pc = "responded" /\ res.status = 200
Summary == res.json.data.summary
Distribution == Summary.sentimentDistribution
AnalysisIn == Get(outcome.value, "contentAnalysis")

\* the integer a number holds
NumValue(x) == x.m * Pow10(x.e)

\* C12: for every non-empty contentAnalysis (any mix of Positive, Neutral
\* and Negative entries) the three percentages of
\* calculateSentimentDistribution sum to exactly 100.
C12_DistributionSums100 ==
  (Reported /\ AnalysisIn.t = "array" /\ Len(AnalysisIn.a) > 0) =>
    /\ \A k \in {"positive", "neutral", "negative"} :
         Distribution[k].t = "number"
    /\ NumValue(Distribution.positive) + NumValue(Distribution.neutral)
         + NumValue(Distribution.negative) = 100

\* how many of the six tag rules match the analysis result and the posts of
\* the request
RulesMatched ==
  LET mentions ==
        Cardinality({i \in 1..Len(req.posts) :
                       mentionsBrand(req.posts[i], req.brand)})
      keywords == Get(outcome.value, "topKeywords")
  IN  Len(sentimentTag(Get(outcome.value, "sentimentScore")))
      + Len(alignmentTag(Get(outcome.value, "brandAlignment")))
      + Len(mentionTag(mentions, Len(req.posts)))
      + Len(riskTag(Get(outcome.value, "riskFactors")))
      + Len(keywordTag(keywords, {"authentic", "genuine", "real"}, "a"))
      + Len(keywordTag(keywords, {"engagement", "community", "followers"},
                       "e"))

\* C13: generateInsightTags returns at most 5 tags for every analysis
\* result, brand-mention count and post count, also when all six tag
\* categories match.
C13_AtMostFiveTags ==
  Reported =>
    /\ Len(res.json.data.tags) <= 5
    /\ Len(res.json.data.tags) = Min(5, RulesMatched)

C13_Witness ==
  /\ Reported
  /\ RulesMatched = 6
  /\ Len(res.json.data.tags) = 5
  /\ outcome.source = "ai"

\* formatAnalysisResponse was called in this state and did not raise on the
\* analysis result
Formatted ==
  /\ pc = "responded"
  /\ outcome.state = "resolved"
  /\ AnalysisIn.t = "array"

\* C19: formatAnalysisResponse computes averageEngagement =
\* round(totalEngagement / posts.length) for a non-empty post list, and for
\* an empty post list it fails, producing no report, rather than returning
\* a report whose averageEngagement or brandMentionRate is not a number.
C19_EmptyPostsFail ==
  Formatted =>
    /\ Len(req.posts) > 0 =>
         /\ res.status = 200
         /\ Summary.averageEngagement.t = "number"
         /\ Summary.brandMentionRate.t = "number"
         /\ 2 * Summary.totalEngagement - Len(req.posts)
              < 2 * Len(req.posts) * NumValue(Summary.averageEngagement)
         /\ 2 * Len(req.posts) * NumValue(Summary.averageEngagement)
              <= 2 * Summary.totalEngagement + Len(req.posts)
    /\ Len(req.posts) = 0 => res.status # 200

\* an empty or missing contentAnalysis
NoAnalysis ==
  \/ AnalysisIn.t \in {"undefined", "null"}
  \/ AnalysisIn.t = "array" /\ Len(AnalysisIn.a) = 0

\* C20: calculateSentimentDistribution called with an empty or missing
\* contentAnalysis returns exactly {positive: 50, neutral: 30, negative:
\* 20}, also when the post list is empty, and no percentage it returns is
\* ever not a number.
C20_DefaultDistribution ==
  Reported =>
    /\ \A k \in {"positive", "neutral", "negative"} :
         Distribution[k].t = "number"
    /\ NoAnalysis =>
         /\ NumValue(Distribution.positive) = 50
         /\ NumValue(Distribution.neutral) = 30
         /\ NumValue(Distribution.negative) = 20

C20_Witness ==
  /\ Reported
  /\ AnalysisIn.t = "array"
  /\ Len(AnalysisIn.a) = 0
  /\ Len(req.posts) = MaxPosts
  /\ NumValue(Distribution.positive) = 50

\* the response text is exactly the text of one JSON object
ExactObjectText ==
  /\ aiResponse.t = "text"
  /\ aiResponse.pre = ""
  /\ aiResponse.post = ""
  /\ aiResponse.body.k = "object"

SchemaValidItem(e) ==
  /\ e.t = "object"
  /\ DOMAIN e.o = {"postIndex", "sentiment", "aiComment", "brandMention"}
  /\ IsInteger(e.o.postIndex) /\ e.o.postIndex.m >= 1
  /\ InEnum(e.o.sentiment, SentimentEnum)
  /\ e.o.aiComment.t = "string"
  /\ e.o.brandMention.t = "boolean"

SchemaValidStrings(v, cap) ==
  /\ v.t = "array"
  /\ Len(v.a) <= cap
  /\ \A i \in 1..Len(v.a) : v.a[i].t = "string" /\ v.a[i].s # ""

\* o is an AnalysisResult: every field present and inside its schema
SchemaValid(o) ==
  /\ DOMAIN o = FieldNames
  /\ InEnum(o.overallSentiment, SentimentEnum)
  /\ IsInteger(o.sentimentScore)
  /\ ~Below0(o.sentimentScore) /\ ~Above100(o.sentimentScore)
  /\ InEnum(o.brandAlignment, AlignmentEnum)
  /\ \A f \in ArrayFields : SchemaValidStrings(o[f], ArrayCap(f))
  /\ o.aiQuote.t = "string"
  /\ Len(o.aiQuote.s) >= 1 /\ Len(o.aiQuote.s) <= 150
  /\ o.contentAnalysis.t = "array"
  /\ \A i \in 1..Len(o.contentAnalysis.a) :
       SchemaValidItem(o.contentAnalysis.a[i])
  /\ o.engagementInsights.t = "string" /\ o.engagementInsights.s # ""

\* C14: normalizer idempotence: for every raw text that is exactly a
\* schema-valid AnalysisResult JSON object, parseAIResponse returns an
\* object equal field for field to the parsed input.
C14_Idempotent ==
  (pc = "parsed" /\ ExactObjectText /\ SchemaValid(aiResponse.body.v.o)) =>
    /\ ~parseOut.threw
    /\ \A f \in FieldNames : Result[f] = aiResponse.body.v.o[f]
    /\ parseOut.value = aiResponse.body.v

C14_Witness ==
  /\ pc = "parsed"
  /\ ExactObjectText
  /\ SchemaValid(aiResponse.body.v.o)
  /\ Len(aiResponse.body.v.o.aiQuote.s) = 150
  /\ parseOut.value = aiResponse.body.v

\* every field of the object o has a type other than its schema's
AllWrongTyped(o) ==
  /\ Get(Obj(o), "overallSentiment").t # "string"
  /\ Get(Obj(o), "sentimentScore").t # "number"
  /\ Get(Obj(o), "brandAlignment").t # "string"
  /\ \A f \in ArrayFields : Get(Obj(o), f).t # "array"
  /\ Get(Obj(o), "aiQuote").t # "string"
  /\ Get(Obj(o), "contentAnalysis").t # "array"
  /\ Get(Obj(o), "engagementInsights").t # "string"

\* the documented default of every field
Defaults ==
  [overallSentiment |-> Str("Neutral"),
   sentimentScore |-> NumOfInt(50),
   brandAlignment |-> Str("Partially Aligned"),
   topKeywords |-> Arr(ArrayFallback("topKeywords")),
   aiQuote |-> Str(req.influencer \o " shows moderate engagement with "
                   \o req.brand \o " content."),
   contentAnalysis |-> Arr(<<>>),
   recommendations |-> Arr(ArrayFallback("recommendations")),
   riskFactors |-> Arr(ArrayFallback("riskFactors")),
   opportunities |-> Arr(ArrayFallback("opportunities")),
   engagementInsights |-> Str("Engagement patterns show standard influencer activity with moderate audience interaction.")]

\* the response text holds no JSON object, not even "{}"
NoJsonObject ==
  /\ aiResponse.t = "text"
  /\ aiResponse.body.k # "object"
  /\ ~includes(aiResponse.pre, "{}")
  /\ ~includes(aiResponse.post, "{}")

\* C15: normalizer total defaulting: for every raw text that contains a
\* JSON object whose fields all have the wrong type, parseAIResponse returns
\* an object whose every field equals its documented default; for every
\* raw text that contains no JSON object it throws.
C15_TotalDefaulting ==
  pc = "parsed" =>
    /\ (/\ aiResponse.t = "text"
        /\ aiResponse.body.k = "object"
        /\ AllWrongTyped(aiResponse.body.v.o)) =>
         /\ ~parseOut.threw
         /\ Result = Defaults
    /\ NoJsonObject => parseOut.threw

\* sub occurs in s when the case of letters is ignored
ContainsIgnoringCase(s, sub) ==
  \E i \in 0..(Len(s) - Len(sub)) :
    \A k \in 1..Len(sub) :
      LowerChar(CharAt(s, i + k)) = LowerChar(CharAt(sub, k))

\* the promise was settled with the result of generateMockResponse
MockReturned == pc = "done" /\ outcome.source = "mock"
MockAnalysis == outcome.value.o.contentAnalysis.a

\* C16: generateMockResponse always succeeds and returns a contentAnalysis
\* with exactly one entry per input post, in post order: entry i has
\* postIndex i (counted from 1), the overall sentiment that was drawn, and
\* brandMention true exactly when the caption of post i contains the brand
\* as a case-insensitive substring.
C16_MockPerPost ==
  MockReturned =>
    /\ outcome.state = "resolved"
    /\ outcome.value.t = "object"
    /\ InEnum(outcome.value.o.overallSentiment, SentimentEnum)
    /\ outcome.value.o.contentAnalysis.t = "array"
    /\ Len(MockAnalysis) = Len(req.posts)
    /\ \A i \in 1..Len(req.posts) :
         /\ MockAnalysis[i].o.postIndex = NumOfInt(i)
         /\ MockAnalysis[i].o.sentiment = outcome.value.o.overallSentiment
         /\ MockAnalysis[i].o.brandMention =
              Bool(ContainsIgnoringCase(req.posts[i].caption, req.brand))

C16_Witness ==
  /\ MockReturned
  /\ Len(req.posts) = 2
  /\ req.brand = "Acme Co"
  /\ MockAnalysis[1].o.brandMention = Bool(TRUE)
  /\ MockAnalysis[2].o.brandMention = Bool(FALSE)
  /\ MockAnalysis[2].o.postIndex = NumOfInt(2)

(***************************************************************************)
(* POST /api/analyze end to end, under SpecRoute.                          *)
(***************************************************************************)
Handled == reqBody # NoRequestBody

\* the limit a valid body asks for: 10 when none is sent
LimitAsked ==
  IF reqBody.limit.t = "undefined" THEN 10
  ELSE IF reqBody.limit.t = "number" THEN NumValue(reqBody.limit)
  ELSE parseInt(reqBody.limit).v

\* C17: every valid request to POST /api/analyze with limit = n (1..50,
\* default 10) that is handled with no API key configured is answered with
\* a success response whose overallSentiment is Positive, Neutral or
\* Negative, whose summary.totalPosts is n, which has at most 5 tags, and
\* whose sentimentDistribution percentages sum to 100.
C17_ValidNoKeyResponse ==
  (pc = "responded" /\ ~apiKey /\ Handled
   /\ validationErrors(reqBody) = <<>>) =>
    /\ res.status = 200
    /\ res.sent
    /\ res.json.success
    /\ res.json.data.overallSentiment \in ValidSentiments
    /\ LimitAsked \in 1..50
    /\ Summary.totalPosts = LimitAsked
    /\ Len(res.json.data.contentAnalysis) = LimitAsked
    /\ Len(res.json.data.tags) <= 5
    /\ Distribution.positive.t = "number"
    /\ Distribution.neutral.t = "number"
    /\ Distribution.negative.t = "number"
    /\ NumValue(Distribution.positive) + NumValue(Distribution.neutral)
         + NumValue(Distribution.negative) = 100

\* a request without a limit is answered, with no key, for 10 posts
C17_Witness ==
  /\ pc = "responded"
  /\ ~apiKey
  /\ Handled
  /\ reqBody.limit = Undef
  /\ res.status = 200
  /\ Summary.totalPosts = 10
  /\ calls = 0

\* the reasons of the claim for a body to fail validation
InfluencerGiven(b) == trim(fieldText(b.influencer))
BrandGiven(b) == trim(fieldText(b.brand))
\* a number below 1 or above 50; m * 10^e with e > 2 is beyond the range
LimitOutside(l) ==
  /\ l.t = "number"
  /\ IF l.e > 2 THEN l.m # 0 ELSE ~(NumGE(l, 1) /\ NumLE(l, 50))
FailsValidation(b) ==
  \/ InfluencerGiven(b) = ""
  \/ Len(InfluencerGiven(b)) > 50
  \/ \E i \in 1..Len(InfluencerGiven(b)) :
       CharAt(InfluencerGiven(b), i) \notin UsernameChars
  \/ BrandGiven(b) = ""
  \/ Len(BrandGiven(b)) > 100
  \/ b.platform.t = "string" /\ b.platform.s \notin Platforms
  \/ LimitOutside(b.limit)

KeywordsIn == Get(ParsedInput, "topKeywords")

\* an array of 10 keywords: 10 strings, none of them empty
TenKeywords ==
  /\ KeywordsIn.t = "array"
  /\ Len(KeywordsIn.a) = 10
  /\ \A i \in 1..10 : KeywordsIn.a[i].t = "string" /\ KeywordsIn.a[i].s # ""

\* C22: given an input topKeywords array of 10 keywords, the topKeywords
\* that parseAIResponse returns has length exactly 5 and equals the first 5
\* input keywords in their input order.
C22_TenKeywordsCapped ==
  (pc = "parsed" /\ TenKeywords) =>
    /\ Returned
    /\ Result.topKeywords.t = "array"
    /\ Len(Result.topKeywords.a) = 5
    /\ \A i \in 1..5 : Result.topKeywords.a[i] = KeywordsIn.a[i]

C22_Witness ==
  /\ Returned
  /\ TenKeywords
  /\ Result.topKeywords =
       Arr(<<Str("k1"), Str("k2"), Str("k3"), Str("k4"), Str("k5")>>)

(***************************************************************************)
(* The tag rules of generateInsightTags, under SpecAggregate.              *)
(***************************************************************************)
ScoreIn == NumValue(Get(outcome.value, "sentimentScore"))
AlignmentIn == Get(outcome.value, "brandAlignment")
MentionsIn ==
  Cardinality({i \in 1..Len(req.posts) :
                 ContainsIgnoringCase(req.posts[i].caption, req.brand)})

\* some keyword of the analysis result is, in lower case, one of the words
KeywordAmong(words) ==
  \E i \in 1..Len(Get(outcome.value, "topKeywords").a) :
    toLowerCase(Get(outcome.value, "topKeywords").a[i].s) \in words

\* the tags the rules give, category by category, before the cap
SentimentCategory ==
  IF ScoreIn >= 80 THEN <<"Excellent Brand Advocate">>
  ELSE IF ScoreIn \in 60..79 THEN <<"Positive Brand Impact">>
  ELSE IF ScoreIn \in 41..59 THEN <<>>
  ELSE <<"Needs Attention">>
AlignmentCategory ==
  IF AlignmentIn \in {Str("Highly Aligned"), Str("Aligned")}
    THEN <<"Brand Aligned">>
  ELSE IF AlignmentIn = Str("Not Aligned") THEN <<"Misaligned Content">>
  ELSE <<>>
MentionCategory ==
  IF Len(req.posts) > 0 /\ 10 * MentionsIn >= 7 * Len(req.posts)
    THEN <<"High Brand Visibility">>
  ELSE IF Len(req.posts) > 0 /\ 10 * MentionsIn <= 3 * Len(req.posts)
    THEN <<"Low Brand Mentions">>
  ELSE <<>>
RiskCategory ==
  IF Len(Get(outcome.value, "riskFactors").a) > 0
    THEN <<"Risk Identified">> ELSE <<>>
AuthenticCategory ==
  IF KeywordAmong({"authentic", "genuine", "real"})
    THEN <<"Authentic Voice">> ELSE <<>>
EngagementCategory ==
  IF KeywordAmong({"engagement", "community", "followers"})
    THEN <<"High Engagement">> ELSE <<>>
TagsInRuleOrder ==
  SentimentCategory \o AlignmentCategory \o MentionCategory
  \o RiskCategory \o AuthenticCategory \o EngagementCategory

\* C23: generateInsightTags emits its tags in rule order with at most one
\* tag per category (sentiment by score: >= 80, 60..79, 41..59 none,
\* <= 40; alignment; mention rate >= 70% or <= 30%; risk; the two keyword
\* tags), and when six tags match the last one in this order is dropped.
C23_TagRuleOrder ==
  Reported =>
    IF Len(TagsInRuleOrder) = 6
      THEN res.json.data.tags = SubSeq(TagsInRuleOrder, 1, 5)
      ELSE res.json.data.tags = TagsInRuleOrder

\* six rules match, the mention rate being exactly 70%, and "High
\* Engagement" is the tag left out
C23_Witness ==
  /\ Reported
  /\ Len(req.posts) = 10
  /\ MentionsIn = 7
  /\ Len(TagsInRuleOrder) = 6
  /\ res.json.data.tags =
       <<"Excellent Brand Advocate", "Brand Aligned",
         "High Brand Visibility", "Risk Identified", "Authentic Voice">>

(***************************************************************************)
(* The per-post entries of the response, under SpecAggregate.              *)
(***************************************************************************)
\* a response was sent for an analysis result whose contentAnalysis is an
\* array, as parseAIResponse and generateMockResponse return it
Answered == pc = "responded" /\ AnalysisIn.t = "array"
Entries == res.json.data.contentAnalysis

\* C24: in every success response data.contentAnalysis has exactly one
\* entry per generated post, in post order, whatever the length of the
\* analysis result's contentAnalysis: entry i takes aiComment and
\* sentiment from contentAnalysis[i] when that element exists and is
\* "Standard engagement post" and "Neutral" otherwise; building the
\* response never fails on a length mismatch.
C24_EntryPerPost ==
  Answered =>
    /\ res.status = 200
    /\ Len(Entries) = Len(req.posts)
    /\ \A i \in 1..Len(req.posts) :
         /\ Entries[i].id = req.posts[i].id
         /\ Entries[i].caption = req.posts[i].caption
         /\ IF i <= Len(AnalysisIn.a)
              THEN /\ Entries[i].aiComment = Get(AnalysisIn.a[i], "aiComment")
                   /\ Entries[i].sentiment = Get(AnalysisIn.a[i], "sentiment")
              ELSE /\ Entries[i].aiComment = Str("Standard engagement post")
                   /\ Entries[i].sentiment = Str("Neutral")

\* the rounded share of response entries that carry the sentiment
EntryShare(sentiment) ==
  roundDiv(100 * Cardinality({i \in 1..Len(Entries) :
                                Entries[i].sentiment = Str(sentiment)}),
           Len(Entries))

\* C25: in every success response summary.sentimentDistribution agrees
\* with the per-post sentiments shown in data.contentAnalysis of the same
\* response: each percentage is the rounded share of response entries that
\* carry that sentiment, for every length and content of the analysis
\* result's contentAnalysis.
C25_DistributionOfEntries ==
  (Answered /\ res.status = 200 /\ Len(Entries) > 0) =>
    /\ Distribution.positive = EntryShare("Positive")
    /\ Distribution.neutral = EntryShare("Neutral")
    /\ Distribution.negative = EntryShare("Negative")

(***************************************************************************)
(* Termination of analyzeInfluencerContent, under Spec.                    *)
(***************************************************************************)
\* C26: every call of analyzeInfluencerContent with an API key ends with a
\* result: for every integer value of OPENAI_MAX_RETRIES (unset or 0
\* meaning 3) makeOpenAIRequest makes at least one and at most maxRetries
\* HTTP attempts, none of them left unsettled, and then returns or throws
\* an error object, which the caller turns into the fallback result.
C26_AttemptsBounded ==
  (apiKey /\ pc = "done") =>
    /\ calls >= 1
    /\ calls <= maxRetries
    /\ inflight = 0
    /\ outcome.state = "resolved"
    /\ thrown = "makeOpenAIRequest" =>
         lastError.t = "error" /\ outcome.source = "mock"

\* C21: two analysis requests in flight at once do not affect each other's
\* gateway behaviour: while a call waits for an attempt its attempt counter
\* is the number of attempts it has made itself, a finished call has made
\* the number of HTTP attempts and got the kind of result it gets when it
\* runs alone, under every interleaving, and no step writes the service's
\* configuration
CallAsAlone(c) ==
  /\ call[c].pc = "http" => frame[frameOf(c)].attempt = call[c].made
  /\ call[c].pc = "done" =>
       /\ call[c].made = Alone(call[c].script).made
       /\ call[c].kind = Alone(call[c].script).kind

ConfigKept == apiKey' = apiKey /\ maxRetries' = maxRetries

C21_CallsIndependent ==
  /\ [](\A c \in DOMAIN call : CallAsAlone(c))
  /\ [][ConfigKept]_vars

\* call b was started while call a was in flight; a used up three attempts
\* and fell back, b was answered at its first attempt
C21_Witness ==
  /\ DOMAIN call = Callers
  /\ call["b"].met
  /\ call["a"].pc = "done" /\ call["a"].made = 3 /\ call["a"].kind = "mock"
  /\ call["b"].pc = "done" /\ call["b"].made = 1 /\ call["b"].kind = "ai"

\* C27: the tracked list never holds two entries with the same platform and
\* the same handle compared case-insensitively, and an add for an account
\* that is already tracked, its handle sent with or without the leading
\* "@", is answered 409 and leaves the list unchanged
SameAccount(x, y) ==
  /\ x.platform = y.platform
  /\ toLowerCase(x.handle) = toLowerCase(y.handle)

NoDuplicateAccount(list) ==
  \A i, j \in 1..Len(list) : i # j => ~SameAccount(list[i], list[j])

AddOfTracked ==
  /\ served.op = "add"
  /\ served.status # 400
  /\ \E i \in 1..Len(served.before) :
       /\ served.before[i].platform = served.arg.platform.s
       /\ toLowerCase(served.before[i].handle)
            = toLowerCase(withAt(trim(served.arg.handle.s)))

C27_NoDuplicateAccount ==
  /\ NoDuplicateAccount(trackedInfluencers)
  /\ AddOfTracked =>
       served.status = 409 /\ trackedInfluencers = served.before

\* C28: a toggle or a delete with an id that no entry carries is answered
\* 404 and leaves the list as it was; with an id that an entry carries, a
\* toggle negates isActive and sets lastUpdate of one entry with that id
\* and changes nothing else (so two toggles restore isActive), a delete
\* removes exactly one entry with that id, and the other entries and their
\* order stay as they were
Carries(list, id) == \E i \in 1..Len(list) : list[i].id = id

OnlyToggled(before, after, i) ==
  /\ Len(after) = Len(before)
  /\ after[i] = [before[i] EXCEPT !.isActive = ~before[i].isActive,
                                  !.lastUpdate = after[i].lastUpdate]
  /\ \A j \in 1..Len(before) : j # i => after[j] = before[j]

OnlyRemoved(before, after, i) ==
  /\ Len(after) = Len(before) - 1
  /\ \A j \in 1..Len(after) :
       after[j] = IF j < i THEN before[j] ELSE before[j + 1]

C28_ToggleDeleteExact ==
  served.op \in {"toggle", "delete"} =>
    IF ~Carries(served.before, served.arg)
      THEN served.status = 404 /\ trackedInfluencers = served.before
      ELSE /\ served.status = 200
           /\ \E i \in 1..Len(served.before) :
                /\ served.before[i].id = served.arg
                /\ IF served.op = "toggle"
                     THEN OnlyToggled(served.before, trackedInfluencers, i)
                     ELSE OnlyRemoved(served.before, trackedInfluencers, i)

\* entry "1" was toggled off and on again (active, with a new lastUpdate
\* and its old figures), then entry "2" was deleted and entry "1" is left
C28_Witness ==
  /\ served.op = "delete" /\ served.arg = "2" /\ served.status = 200
  /\ served.n = 3
  /\ Len(trackedInfluencers) = 1
  /\ trackedInfluencers[1].id = "1"
  /\ trackedInfluencers[1].isActive
  /\ trackedInfluencers[1].lastUpdate.m >= 10
  /\ trackedInfluencers[1].followers = 125000

\* C29: every brief created by POST /api/briefs/generate is in the list
\* with status "pending" and deliveredAt null when the 202 is sent; once
\* its timer has fired its status is "delivered" and deliveredAt is not
\* null; no brief that was "delivered" before a step is anything else after
\* it; and a firing timer changes no brief but its own
Generated(brief) == brief.ref > Len(SeedBriefs)

TimerSet(brief) ==
  \E i \in 1..Len(timers) :
    timers[i].kind = "generate" /\ timers[i].ref = brief.ref

BriefWas(ref) ==
  served.briefsBefore[CHOOSE j \in 1..Len(served.briefsBefore) :
                        served.briefsBefore[j].ref = ref]

C29_BriefLifecycle ==
  /\ (served.op = "generate" /\ served.status = 202) =>
       /\ trendBriefs[1] = served.data
       /\ trendBriefs[1].status = "pending"
       /\ trendBriefs[1].deliveredAt = Null
  /\ \A i \in 1..Len(trendBriefs) :
       Generated(trendBriefs[i]) =>
         IF TimerSet(trendBriefs[i])
           THEN /\ trendBriefs[i].status = "pending"
                /\ trendBriefs[i].deliveredAt = Null
           ELSE /\ trendBriefs[i].status = "delivered"
                /\ trendBriefs[i].deliveredAt # Null
  /\ served.op # "none" =>
       \A i \in 1..Len(trendBriefs) :
         (\E j \in 1..Len(served.briefsBefore) :
            served.briefsBefore[j].ref = trendBriefs[i].ref) =>
           /\ BriefWas(trendBriefs[i].ref).status = "delivered" =>
                trendBriefs[i].status = "delivered"
           /\ (served.op = "timer" /\ served.arg # trendBriefs[i].ref) =>
                trendBriefs[i] = BriefWas(trendBriefs[i].ref)

\* C30: POST /api/briefs/:id/export starts an export only when a brief
\* with that id is "delivered"; while the briefs with that id are still
\* "pending" it answers 400, for an id that no brief carries 404, and in no
\* case does it change the briefs list or a brief's status
BriefsWithId(list, id) == {i \in 1..Len(list) : list[i].id = id}

C30_ExportOnlyDelivered ==
  served.op = "export" =>
    /\ trendBriefs = served.briefsBefore
    /\ served.status = 200 =>
         \E i \in BriefsWithId(trendBriefs, served.arg) :
           trendBriefs[i].status = "delivered"
    /\ BriefsWithId(trendBriefs, served.arg) = {} <=> served.status = 404
    /\ (/\ BriefsWithId(trendBriefs, served.arg) # {}
        /\ \A i \in BriefsWithId(trendBriefs, served.arg) :
             trendBriefs[i].status = "pending") => served.status = 400

\* an export arrived between generate and the firing of the generation
\* timer and was answered 400
C30_Witness ==
  /\ served.op = "export" /\ served.status = 400
  /\ \E i \in BriefsWithId(trendBriefs, served.arg) :
       /\ trendBriefs[i].status = "pending"
       /\ TimerSet(trendBriefs[i])

====
